---- MODULE Spec2Model ----
(***************************************************************************)
(* B+ tree engines of BPlusTree3:                                          *)
(*   - the standalone C engine (c/src/bplustree.c), int keys and values,   *)
(*     nodes linked by next/prev/parent pointers;                          *)
(*   - the Python-extension engine (python/bplustree_c_src/node_ops.c,     *)
(*     tree_ops.c, bplustree_module.c), object keys and values.            *)
(* Nodes live in a heap: a function from addresses (positive integers) to  *)
(* node records.  NULL is address 0.  An address that is not in the heap's *)
(* domain is not allocated: a pointer holding it is dangling.              *)
(* C arrays are sequences; slot i of the C code is element i + 1 here, and *)
(* only the slots below key_count / num_keys are kept (the C engine never  *)
(* reads a slot at or above key_count; the Python engine keeps those slots *)
(* NULL).                                                                  *)
(***************************************************************************)
EXTENDS Integers, Sequences, FiniteSets, TLC

VARIABLES
    tree,      \* C engine: struct bplustree
    heap,      \* C engine: the allocated bptree_node_t blocks, by address
    cres,      \* C engine: result code of the last call
    expect,    \* C engine: key -> value of the last insert that returned BPTREE_OK,
               \*   NotFound after a remove that returned BPTREE_OK or a clear
    pytree,    \* Python engine: struct BPlusTree
    pyheap,    \* Python engine: the allocated BPlusNode blocks, by address
    pyres,     \* Python engine: return value of the last call
    pyexpect,  \* Python engine: key -> value of the last tree_insert of the key,
               \*   NotFound once tree_delete has removed it
    last,      \* the last call: "new", "insert" (of a key the tree did not
               \*   hold), "update" (of a key it held), "remove", "delete", "clear"
    engine,    \* the engine this run drives: "c" or "py"
    workload,  \* the caller of this run: "any", "grow", "iter" or "cmp"
    mutated,   \* growth workload: its one overwrite or delete has been spent
    iters,     \* C engine: the caller's bptree_iterator_t pointers, by slot
    ires,      \* C engine: what the last read or iterator call returned
    seen,      \* per slot: the entries bptree_iterator_next has yielded, and
               \*   clean: the tree has not changed since the iterator was made
    uaf,       \* a call has read a node that had been freed
    memlimit,  \* the number of node blocks the allocator has room for
    raises     \* Python engine: the pairs of keys whose comparison raises

cvars == <<tree, heap, cres, expect>>
pyvars == <<pytree, pyheap, pyres, pyexpect>>
itervars == <<iters, ires, seen, uaf>>
vars == <<tree, heap, cres, expect, pytree, pyheap, pyres, pyexpect, last, engine,
          workload, mutated, iters, ires, seen, uaf, memlimit,
          raises>>

NULL == 0
BPTREE_MIN_CAPACITY == 4
\* size_t is modelled with 31 bits, the width of TLC's integers.
SIZE_MAX == 2147483647
\* sizeof(int), sizeof(bptree_node_t*) and sizeof(bptree_node_t) of an LP64 build
SIZEOF_INT == 4
SIZEOF_POINTER == 8
SIZEOF_NODE == 64

\* Bounds of the model
MaxCapacity == 4      \* capacities BPTREE_MIN_CAPACITY..MaxCapacity
MaxKey == 5           \* keys of the exhaustive workload
MaxDeepKey == 13      \* keys of the growth workload
MaxGap == 1           \* growth workload: a new key is at most size + MaxGap
MaxSize == 14         \* growth workload: no insert once size reaches MaxSize
MaxLimit == 8         \* allocation failure: the allocator has room for 1..MaxLimit nodes
MaxCmpKey == 7        \* keys of the comparison-failure workload

Capacities == BPTREE_MIN_CAPACITY..MaxCapacity
Keys == 1..MaxKey
\* Neither engine inspects a value: two of them tell an overwrite from a
\* stale read.
Values == {1, 2}
DeepKeys == 1..MaxDeepKey
CmpKeys == 1..MaxCmpKey
AllKeys == Keys \cup DeepKeys \cup CmpKeys
NotFound == 0
\* The caller's iterator variables.
Slots == {1, 2}
\* ires when the last call was not a read.
NoResult == "none"
\* The ghost record of an iterator that has just been made, or of an empty slot.
Unseen == [entries |-> <<>>, clean |-> TRUE]

Min(S) == CHOOSE x \in S : \A y \in S : x <= y

\* Store record rec at address a (a fresh or a re-used block).
Store(h, a, rec) == [x \in (DOMAIN h) \cup {a} |-> IF x = a THEN rec ELSE h[x]]

(***************************************************************************)
(* Standalone C engine                                                     *)
(***************************************************************************)

\* A NULL bplustree_t pointer.  It has none of the fields of struct
\* bplustree: reading a field through it is an evaluation error.
NULL_TREE == [null |-> TRUE]

\* Mutant of bptree_new: the capacity just below BPTREE_MIN_CAPACITY passes.
bptree_new_one_below(capacity) ==
    IF capacity + 1 < BPTREE_MIN_CAPACITY THEN NULL_TREE
    ELSE [root |-> NULL, capacity |-> capacity, size |-> 0, first_leaf |-> NULL]

bptree_new(capacity) ==
    IF capacity < BPTREE_MIN_CAPACITY THEN NULL_TREE
    ELSE [root |-> NULL, capacity |-> capacity, size |-> 0, first_leaf |-> NULL]

create_leaf_node(capacity) ==
    [is_leaf |-> TRUE, keys |-> <<>>, capacity |-> capacity, parent |-> NULL,
     values |-> <<>>, next |-> NULL, prev |-> NULL, children |-> <<>>]

create_branch_node(capacity) ==
    [is_leaf |-> FALSE, keys |-> <<>>, capacity |-> capacity, parent |-> NULL,
     values |-> <<>>, next |-> NULL, prev |-> NULL, children |-> <<>>]

\* size_t arithmetic: sums and products modulo SIZE_MAX + 1.
SizeAdd(a, b) == IF a > SIZE_MAX - b THEN (a - (SIZE_MAX - b)) - 1 ELSE a + b

RECURSIVE SizeMul(_, _)
SizeMul(a, n) == IF n = 0 THEN 0 ELSE SizeAdd(SizeMul(a, n - 1), a)

\* total_size of create_leaf_node: what is passed to malloc.
leaf_total_size(capacity) ==
    SizeAdd(SizeAdd(SIZEOF_NODE, SizeMul(capacity, SIZEOF_INT)),
            SizeMul(capacity, SIZEOF_INT))

\* total_size of create_branch_node.
branch_total_size(capacity) ==
    SizeAdd(SizeAdd(SIZEOF_NODE, SizeMul(capacity, SIZEOF_INT)),
            SizeMul(SizeAdd(capacity, 1), SIZEOF_POINTER))

free_node(h, node) == [x \in (DOMAIN h) \ {node} |-> h[x]]

\* Mutant of bsk_loop: the comparison is keys[mid] <= target, which finds the
\* first key above the target.
RECURSIVE bsk_loop_upper_bound(_, _, _, _)
bsk_loop_upper_bound(keys, left, right, target) ==
    IF left < right
    THEN LET mid == left + ((right - left) \div 2)
         IN  IF keys[mid + 1] <= target
             THEN bsk_loop_upper_bound(keys, mid + 1, right, target)
             ELSE bsk_loop_upper_bound(keys, left, mid, target)
    ELSE left

RECURSIVE bsk_loop(_, _, _, _)
bsk_loop(keys, left, right, target) ==
    IF left < right
    THEN LET mid == left + ((right - left) \div 2)
         IN  IF keys[mid + 1] < target
             THEN bsk_loop(keys, mid + 1, right, target)
             ELSE bsk_loop(keys, left, mid, target)
    ELSE left

binary_search_keys(keys, count, target) == bsk_loop(keys, 0, count, target)

RECURSIVE bse_loop(_, _, _, _)
bse_loop(keys, left, right, target) ==
    IF left < right
    THEN LET mid == left + ((right - left) \div 2)
         IN  IF keys[mid + 1] < target THEN bse_loop(keys, mid + 1, right, target)
             ELSE IF keys[mid + 1] > target THEN bse_loop(keys, left, mid, target)
             ELSE mid
    ELSE SIZE_MAX

binary_search_exact(keys, count, target) == bse_loop(keys, 0, count, target)

\* Mutant of navigate: the plain lower bound in each branch, without the step
\* to the right child when the key equals the separator.
RECURSIVE navigate_lower_bound(_, _, _)
navigate_lower_bound(h, current, key) ==
    IF h[current].is_leaf THEN current
    ELSE LET n   == h[current]
             pos == binary_search_keys(n.keys, Len(n.keys), key)
         IN  navigate_lower_bound(h, n.children[pos + 1], key)

\* The root-to-leaf loop of bptree_insert / bptree_get.
RECURSIVE navigate(_, _, _)
navigate(h, current, key) ==
    IF h[current].is_leaf THEN current
    ELSE LET n   == h[current]
             p   == binary_search_keys(n.keys, Len(n.keys), key)
             pos == IF p < Len(n.keys) /\ n.keys[p + 1] = key THEN p + 1 ELSE p
         IN  navigate(h, n.children[pos + 1], key)

\* split_leaf_node with the new right leaf allocated at address right_leaf.
\* The write through left_leaf->next->prev is lost when left_leaf->next is
\* dangling, and hits the new leaf itself when malloc re-used that block.
split_leaf_node(h, left_leaf, right_leaf) ==
    LET L           == h[left_leaf]
        split_point == L.capacity \div 2
        key_count   == Len(L.keys)
        R0 == [create_leaf_node(L.capacity) EXCEPT
                 !.keys   = SubSeq(L.keys, split_point + 1, key_count),
                 !.values = SubSeq(L.values, split_point + 1, key_count)]
        h1 == Store(h, right_leaf, R0)
        h2 == [h1 EXCEPT ![left_leaf].keys   = SubSeq(L.keys, 1, split_point),
                         ![left_leaf].values = SubSeq(L.values, 1, split_point)]
        h3 == [h2 EXCEPT ![right_leaf].next = L.next,
                         ![right_leaf].prev = left_leaf]
        h4 == IF L.next # NULL /\ L.next \in DOMAIN h3
              THEN [h3 EXCEPT ![L.next].prev = right_leaf]
              ELSE h3
        h5 == [h4 EXCEPT ![left_leaf].next = right_leaf]
    IN  [h5 EXCEPT ![right_leaf].parent = L.parent]

\* The linear scan of bptree_insert for the split key's slot in the parent.
RECURSIVE parent_insert_pos(_, _, _, _)
parent_insert_pos(keys, split_key, i, insert_pos) ==
    IF i < Len(keys)
    THEN IF split_key < keys[i + 1] THEN i
         ELSE parent_insert_pos(keys, split_key, i + 1, i + 1)
    ELSE insert_pos

InsertAt(s, pos, x) == SubSeq(s, 1, pos) \o <<x>> \o SubSeq(s, pos + 1, Len(s))
RemoveAt(s, pos) == SubSeq(s, 1, pos) \o SubSeq(s, pos + 2, Len(s))

\* Lines 299-316 of bptree_insert: place the pair in a leaf that has room.
insert_into_leaf(t, h, leaf, key, value) ==
    LET n   == h[leaf]
        pos == binary_search_keys(n.keys, Len(n.keys), key)
    IN  [tree   |-> [t EXCEPT !.size = @ + 1],
         heap   |-> [h EXCEPT ![leaf].keys   = InsertAt(n.keys, pos, key),
                              ![leaf].values = InsertAt(n.values, pos, value)],
         result |-> "BPTREE_OK"]

\* Mutant of insert_split: the new root takes the new right leaf as its left
\* child and the old root as its right child.
insert_split_root_children_swapped(t, h, leaf, key, value, a1, a2) ==
    LET h1         == split_leaf_node(h, leaf, a1)
        right_leaf == a1
    IN  IF a1 = NULL
        THEN [tree |-> t, heap |-> h, result |-> "BPTREE_ERROR_OUT_OF_MEMORY"]
        ELSE IF h1[leaf].parent = NULL /\ a2 = NULL
        THEN [tree |-> t, heap |-> free_node(h1, right_leaf),
              result |-> "BPTREE_ERROR_OUT_OF_MEMORY"]
        ELSE IF h1[leaf].parent = NULL
        THEN LET new_root == a2
                 nr == [create_branch_node(t.capacity) EXCEPT
                          !.keys     = <<h1[right_leaf].keys[1]>>,
                          !.children = <<right_leaf, leaf>>]
                 h2 == Store(h1, new_root, nr)
                 h3 == [h2 EXCEPT ![leaf].parent = new_root,
                                  ![right_leaf].parent = new_root]
                 t1 == [t EXCEPT !.root = new_root]
             IN  insert_into_leaf(t1, h3, navigate(h3, t1.root, key), key, value)
        ELSE LET parent    == h1[leaf].parent
                 P         == h1[parent]
                 split_key == h1[right_leaf].keys[1]
             IN  IF Len(P.keys) >= P.capacity
                 THEN [tree |-> t, heap |-> free_node(h1, right_leaf),
                       result |-> "BPTREE_ERROR_INVALID_STATE"]
                 ELSE LET insert_pos == parent_insert_pos(P.keys, split_key, 0, 0)
                          h2 == [h1 EXCEPT
                                   ![parent].keys = InsertAt(P.keys, insert_pos, split_key),
                                   ![parent].children =
                                       InsertAt(P.children, insert_pos + 1, right_leaf),
                                   ![right_leaf].parent = parent]
                      IN  insert_into_leaf(t, h2, navigate(h2, t.root, key), key, value)

\* Mutant of insert_split: the parent is refused only once it holds more than
\* capacity separators.
insert_split_parent_over_capacity(t, h, leaf, key, value, a1, a2) ==
    LET h1         == split_leaf_node(h, leaf, a1)
        right_leaf == a1
    IN  IF a1 = NULL
        THEN [tree |-> t, heap |-> h, result |-> "BPTREE_ERROR_OUT_OF_MEMORY"]
        ELSE IF h1[leaf].parent = NULL /\ a2 = NULL
        THEN [tree |-> t, heap |-> free_node(h1, right_leaf),
              result |-> "BPTREE_ERROR_OUT_OF_MEMORY"]
        ELSE IF h1[leaf].parent = NULL
        THEN LET new_root == a2
                 nr == [create_branch_node(t.capacity) EXCEPT
                          !.keys     = <<h1[right_leaf].keys[1]>>,
                          !.children = <<leaf, right_leaf>>]
                 h2 == Store(h1, new_root, nr)
                 h3 == [h2 EXCEPT ![leaf].parent = new_root,
                                  ![right_leaf].parent = new_root]
                 t1 == [t EXCEPT !.root = new_root]
             IN  insert_into_leaf(t1, h3, navigate(h3, t1.root, key), key, value)
        ELSE LET parent    == h1[leaf].parent
                 P         == h1[parent]
                 split_key == h1[right_leaf].keys[1]
             IN  IF Len(P.keys) > P.capacity
                 THEN [tree |-> t, heap |-> free_node(h1, right_leaf),
                       result |-> "BPTREE_ERROR_INVALID_STATE"]
                 ELSE LET insert_pos == parent_insert_pos(P.keys, split_key, 0, 0)
                          h2 == [h1 EXCEPT
                                   ![parent].keys = InsertAt(P.keys, insert_pos, split_key),
                                   ![parent].children =
                                       InsertAt(P.children, insert_pos + 1, right_leaf),
                                   ![right_leaf].parent = parent]
                      IN  insert_into_leaf(t, h2, navigate(h2, t.root, key), key, value)

\* Lines 222-297 of bptree_insert: the leaf is full.
\* a1 is what malloc returns for the right leaf and a2 what it returns for
\* the new root: NULL when the allocation fails.
insert_split(t, h, leaf, key, value, a1, a2) ==
    LET h1         == split_leaf_node(h, leaf, a1)
        right_leaf == a1
    IN  IF a1 = NULL
        THEN [tree |-> t, heap |-> h, result |-> "BPTREE_ERROR_OUT_OF_MEMORY"]
        ELSE IF h1[leaf].parent = NULL /\ a2 = NULL
        THEN [tree |-> t, heap |-> free_node(h1, right_leaf),
              result |-> "BPTREE_ERROR_OUT_OF_MEMORY"]
        ELSE IF h1[leaf].parent = NULL
        THEN LET new_root == a2
                 nr == [create_branch_node(t.capacity) EXCEPT
                          !.keys     = <<h1[right_leaf].keys[1]>>,
                          !.children = <<leaf, right_leaf>>]
                 h2 == Store(h1, new_root, nr)
                 h3 == [h2 EXCEPT ![leaf].parent = new_root,
                                  ![right_leaf].parent = new_root]
                 t1 == [t EXCEPT !.root = new_root]
             IN  insert_into_leaf(t1, h3, navigate(h3, t1.root, key), key, value)
        ELSE LET parent    == h1[leaf].parent
                 P         == h1[parent]
                 split_key == h1[right_leaf].keys[1]
             IN  IF Len(P.keys) >= P.capacity
                 THEN [tree |-> t, heap |-> free_node(h1, right_leaf),
                       result |-> "BPTREE_ERROR_INVALID_STATE"]
                 ELSE LET insert_pos == parent_insert_pos(P.keys, split_key, 0, 0)
                          h2 == [h1 EXCEPT
                                   ![parent].keys = InsertAt(P.keys, insert_pos, split_key),
                                   ![parent].children =
                                       InsertAt(P.children, insert_pos + 1, right_leaf),
                                   ![right_leaf].parent = parent]
                      IN  insert_into_leaf(t, h2, navigate(h2, t.root, key), key, value)

\* Mutant of bptree_insert: the root leaf of an empty tree is not recorded as
\* first_leaf.
bptree_insert_first_leaf_unset(t, h, key, value, a1, a2) ==
    LET t1   == IF t.root = NULL THEN [t EXCEPT !.root = a1] ELSE t
        h1   == IF t.root = NULL THEN Store(h, a1, create_leaf_node(t.capacity)) ELSE h
        leaf == navigate(h1, t1.root, key)
        exact_pos == binary_search_exact(h1[leaf].keys, Len(h1[leaf].keys), key)
    IN  IF t = NULL_TREE
        THEN [tree |-> t, heap |-> h, result |-> "BPTREE_ERROR_NULL_POINTER"]
        ELSE IF t.root = NULL /\ a1 = NULL
        THEN [tree |-> t, heap |-> h, result |-> "BPTREE_ERROR_OUT_OF_MEMORY"]
        ELSE IF exact_pos # SIZE_MAX
        THEN [tree |-> t1,
              heap |-> [h1 EXCEPT ![leaf].values[exact_pos + 1] = value],
              result |-> "BPTREE_OK"]
        ELSE IF Len(h1[leaf].keys) >= h1[leaf].capacity
        THEN insert_split(t1, h1, leaf, key, value, a1, a2)
        ELSE insert_into_leaf(t1, h1, leaf, key, value)

\* a1 is what malloc returns for the leaf the call may allocate (the root of
\* an empty tree, or the right half of a full leaf), a2 what it returns for a
\* new root: NULL when the allocation fails.
bptree_insert(t, h, key, value, a1, a2) ==
    LET t1   == IF t.root = NULL THEN [t EXCEPT !.root = a1, !.first_leaf = a1] ELSE t
        h1   == IF t.root = NULL THEN Store(h, a1, create_leaf_node(t.capacity)) ELSE h
        leaf == navigate(h1, t1.root, key)
        exact_pos == binary_search_exact(h1[leaf].keys, Len(h1[leaf].keys), key)
    IN  IF t = NULL_TREE
        THEN [tree |-> t, heap |-> h, result |-> "BPTREE_ERROR_NULL_POINTER"]
        ELSE IF t.root = NULL /\ a1 = NULL
        THEN [tree |-> t, heap |-> h, result |-> "BPTREE_ERROR_OUT_OF_MEMORY"]
        ELSE IF exact_pos # SIZE_MAX
        THEN [tree |-> t1,
              heap |-> [h1 EXCEPT ![leaf].values[exact_pos + 1] = value],
              result |-> "BPTREE_OK"]
        ELSE IF Len(h1[leaf].keys) >= h1[leaf].capacity
        THEN insert_split(t1, h1, leaf, key, value, a1, a2)
        ELSE insert_into_leaf(t1, h1, leaf, key, value)

\* A pointer argument that is not NULL (an out parameter of the caller).
VALID == 1

\* bptree_get(tree, key, value): the result code and the value written
\* through the out pointer value, which is NULL or VALID.
bptree_get_out(t, h, key, value) ==
    IF t = NULL_TREE \/ value = NULL
    THEN [result |-> "BPTREE_ERROR_NULL_POINTER", value |-> NotFound]
    ELSE IF t.root = NULL THEN [result |-> "BPTREE_ERROR_KEY_NOT_FOUND", value |-> NotFound]
    ELSE LET current == navigate(h, t.root, key)
             pos == binary_search_exact(h[current].keys, Len(h[current].keys), key)
         IN  IF pos # SIZE_MAX
             THEN [result |-> "BPTREE_OK", value |-> h[current].values[pos + 1]]
             ELSE [result |-> "BPTREE_ERROR_KEY_NOT_FOUND", value |-> NotFound]

\* bptree_get called with the address of a variable of the caller.
bptree_get(t, h, key) == bptree_get_out(t, h, key, VALID)

\* Mutant of bptree_contains: a tree with a root contains every key.
bptree_contains_any(t, h, key) == t # NULL_TREE /\ t.root # NULL

bptree_contains(t, h, key) == bptree_get(t, h, key).result = "BPTREE_OK"

bptree_remove(t, h, key) ==
    IF t = NULL_TREE
    THEN [tree |-> t, heap |-> h, result |-> "BPTREE_ERROR_NULL_POINTER"]
    ELSE IF t.root = NULL
    THEN [tree |-> t, heap |-> h, result |-> "BPTREE_ERROR_KEY_NOT_FOUND"]
    ELSE LET leaf == t.root
         IN  IF ~h[leaf].is_leaf
             THEN [tree |-> t, heap |-> h, result |-> "BPTREE_ERROR_INVALID_STATE"]
             ELSE LET pos == binary_search_exact(h[leaf].keys, Len(h[leaf].keys), key)
                  IN  IF pos = SIZE_MAX
                      THEN [tree |-> t, heap |-> h,
                            result |-> "BPTREE_ERROR_KEY_NOT_FOUND"]
                      ELSE [tree |-> [t EXCEPT !.size = @ - 1],
                            heap |-> [h EXCEPT ![leaf].keys   = RemoveAt(@, pos),
                                               ![leaf].values = RemoveAt(@, pos)],
                            result |-> "BPTREE_OK"]

bptree_size(t) == IF t # NULL_TREE THEN t.size ELSE 0

\* Mutant of bptree_is_empty: a NULL tree is reported as not empty.
bptree_is_empty_null_false(t) == IF t # NULL_TREE THEN t.size = 0 ELSE FALSE

bptree_is_empty(t) == IF t # NULL_TREE THEN t.size = 0 ELSE TRUE

\* The addresses free_subtree(node) passes to free_node.
RECURSIVE free_subtree(_, _)
free_subtree(h, node) ==
    IF node = NULL \/ node \notin DOMAIN h THEN {}
    ELSE IF h[node].is_leaf THEN {node}
    ELSE {node} \cup UNION {free_subtree(h, h[node].children[i]) :
                               i \in 1..Len(h[node].children)}

\* Mutant of bptree_clear: first_leaf is not reset.
bptree_clear_keeps_first_leaf(t, h) ==
    IF t = NULL_TREE THEN [tree |-> t, heap |-> h]
    ELSE IF t.root # NULL
    THEN [tree |-> [t EXCEPT !.root = NULL, !.size = 0],
          heap |-> [x \in (DOMAIN h) \ free_subtree(h, t.root) |-> h[x]]]
    ELSE [tree |-> t, heap |-> h]

bptree_clear(t, h) ==
    IF t = NULL_TREE THEN [tree |-> t, heap |-> h]
    ELSE IF t.root # NULL
    THEN [tree |-> [t EXCEPT !.root = NULL, !.first_leaf = NULL, !.size = 0],
          heap |-> [x \in (DOMAIN h) \ free_subtree(h, t.root) |-> h[x]]]
    ELSE [tree |-> t, heap |-> h]

\* bptree_free: the nodes are freed by bptree_clear, then the tree structure.
\* The heap that is left; the caller's pointer is not usable afterwards.
bptree_free(t, h) == IF t = NULL_TREE THEN h ELSE bptree_clear(t, h).heap

\* bptree_validate: the tree argument is unused.
bptree_validate(t) == TRUE

\* Addresses held by the tree or by a live node that are not allocated.
Dangling(t, h) ==
    ((IF t = NULL_TREE THEN {} ELSE {t.root, t.first_leaf})
       \cup {h[x].next : x \in DOMAIN h} \cup {h[x].prev : x \in DOMAIN h}
       \cup {h[x].parent : x \in DOMAIN h}
       \cup UNION {{h[x].children[i] : i \in 1..Len(h[x].children)} : x \in DOMAIN h})
    \ ((DOMAIN h) \cup {NULL})

\* The least address that is neither allocated nor held by anyone nor in used.
Fresh(t, h, used) ==
    LET taken == (DOMAIN h) \cup Dangling(t, h) \cup used
    IN  Min({a \in 1..(Cardinality(taken) + 1) : a \notin taken})

\* What malloc may return: an unused block, or a freed block that a dangling
\* pointer still designates.
AllocChoices(t, h) == {Fresh(t, h, {})} \cup Dangling(t, h)

\* What malloc returns for one more node when n are allocated: NULL when
\* the allocator has no room left, else one of choices.
Malloc(n, choices) == IF n >= memlimit THEN {NULL} ELSE choices


(***************************************************************************)
(* Python-extension engine.  Keys and values are Python objects; here they  *)
(* are integers compared by fast_compare_lt / fast_compare_eq.              *)
(***************************************************************************)

MIN_CAPACITY == 4
NODE_LEAF == 0
NODE_BRANCH == 1
UINT16 == 65536

\* fast_compare_lt / fast_compare_eq: 1 or 0, or -1 when the comparison of
\* the two objects raises (PyObject_RichCompareBool).
fast_compare_lt(a, b) == IF {a, b} \in raises THEN -1 ELSE IF a < b THEN 1 ELSE 0

fast_compare_eq(a, b) == IF {a, b} \in raises THEN -1 ELSE IF a = b THEN 1 ELSE 0

\* node_create: num_keys = 0 and every slot NULL.
node_create(type, capacity) ==
    [type |-> type, capacity |-> capacity % UINT16, next |-> NULL,
     keys |-> <<>>, values |-> <<>>, children |-> <<>>]

\* Slot reads.  A slot at or above num_keys holds NULL.
node_get_key(n, index) == IF index < Len(n.keys) THEN n.keys[index + 1] ELSE NULL

node_get_value(n, index) == IF index < Len(n.values) THEN n.values[index + 1] ELSE NULL

node_get_child(n, index) == IF index < Len(n.children) THEN n.children[index + 1] ELSE NULL

RECURSIVE nfp_loop(_, _, _, _)
nfp_loop(n, left, right, key) ==
    IF left < right
    THEN LET mid    == (left + right) \div 2
             result == fast_compare_lt(node_get_key(n, mid), key)
         IN  IF result < 0 THEN -1
             ELSE IF result = 1
             THEN nfp_loop(n, mid + 1, right, key)
             ELSE nfp_loop(n, left, mid, key)
    ELSE left

node_find_position(n, key) == nfp_loop(n, 0, Len(n.keys), key)

\* A block that is not allocated.
PyFresh(h) == Min({a \in 1..(Cardinality(DOMAIN h) + 1) : a \notin DOMAIN h})

\* What node_create returns: NULL when the allocator has no room left.
PyAlloc(h) == IF Cardinality(DOMAIN h) >= memlimit THEN NULL ELSE PyFresh(h)

\* Result of node_insert_leaf / node_insert_branch / tree_insert_recursive:
\* the heap, the return value and the two out parameters.
InsertResult(h, result, new_node, split_key) ==
    [heap |-> h, result |-> result, new_node |-> new_node, split_key |-> split_key]

\* Mutant of node_insert_leaf: the split key reported is the last key kept in
\* the original leaf instead of the first key of the new leaf.
node_insert_leaf_left_split_key(h, node, key, value) ==
    LET n   == h[node]
        pos == node_find_position(n, key)
    IN  IF pos < Len(n.keys) /\ fast_compare_eq(node_get_key(n, pos), key) = 1
        THEN InsertResult([h EXCEPT ![node].values[pos + 1] = value], -2, NULL, NULL)
        ELSE IF Len(n.keys) >= n.capacity /\ PyAlloc(h) = NULL
        THEN InsertResult(h, -1, NULL, NULL)
        ELSE IF Len(n.keys) >= n.capacity
        THEN LET new_node    == PyAlloc(h)
                 temp_keys   == InsertAt(n.keys, pos, key)
                 temp_values == InsertAt(n.values, pos, value)
                 mid         == n.capacity \div 2
                 total_items == n.capacity + 1
                 N == [node_create(NODE_LEAF, n.capacity) EXCEPT
                         !.keys   = SubSeq(temp_keys, mid + 1, total_items),
                         !.values = SubSeq(temp_values, mid + 1, total_items),
                         !.next   = n.next]
                 h1 == [h EXCEPT ![node].keys   = SubSeq(temp_keys, 1, mid),
                                 ![node].values = SubSeq(temp_values, 1, mid),
                                 ![node].next   = new_node]
             IN  InsertResult(Store(h1, new_node, N), 1, new_node, temp_keys[mid])
        ELSE InsertResult([h EXCEPT ![node].keys   = InsertAt(n.keys, pos, key),
                                    ![node].values = InsertAt(n.values, pos, value)],
                          0, NULL, NULL)

\* Mutant of node_insert_leaf: the split point is one slot above capacity / 2.
node_insert_leaf_split_high(h, node, key, value) ==
    LET n   == h[node]
        pos == node_find_position(n, key)
    IN  IF pos < Len(n.keys) /\ fast_compare_eq(node_get_key(n, pos), key) = 1
        THEN InsertResult([h EXCEPT ![node].values[pos + 1] = value], -2, NULL, NULL)
        ELSE IF Len(n.keys) >= n.capacity /\ PyAlloc(h) = NULL
        THEN InsertResult(h, -1, NULL, NULL)
        ELSE IF Len(n.keys) >= n.capacity
        THEN LET new_node    == PyAlloc(h)
                 temp_keys   == InsertAt(n.keys, pos, key)
                 temp_values == InsertAt(n.values, pos, value)
                 mid         == (n.capacity \div 2) + 1
                 total_items == n.capacity + 1
                 N == [node_create(NODE_LEAF, n.capacity) EXCEPT
                         !.keys   = SubSeq(temp_keys, mid + 1, total_items),
                         !.values = SubSeq(temp_values, mid + 1, total_items),
                         !.next   = n.next]
                 h1 == [h EXCEPT ![node].keys   = SubSeq(temp_keys, 1, mid),
                                 ![node].values = SubSeq(temp_values, 1, mid),
                                 ![node].next   = new_node]
             IN  InsertResult(Store(h1, new_node, N), 1, new_node, N.keys[1])
        ELSE InsertResult([h EXCEPT ![node].keys   = InsertAt(n.keys, pos, key),
                                    ![node].values = InsertAt(n.values, pos, value)],
                          0, NULL, NULL)

node_insert_leaf(h, node, key, value) ==
    LET n   == h[node]
        pos == node_find_position(n, key)
    IN  IF pos < 0 THEN InsertResult(h, -1, NULL, NULL)
        ELSE IF pos < Len(n.keys) /\ fast_compare_eq(node_get_key(n, pos), key) < 0
        THEN InsertResult(h, -1, NULL, NULL)
        ELSE IF pos < Len(n.keys) /\ fast_compare_eq(node_get_key(n, pos), key) = 1
        THEN InsertResult([h EXCEPT ![node].values[pos + 1] = value], -2, NULL, NULL)
        ELSE IF Len(n.keys) >= n.capacity /\ PyAlloc(h) = NULL
        THEN InsertResult(h, -1, NULL, NULL)
        ELSE IF Len(n.keys) >= n.capacity
        THEN LET new_node    == PyAlloc(h)
                 temp_keys   == InsertAt(n.keys, pos, key)
                 temp_values == InsertAt(n.values, pos, value)
                 mid         == n.capacity \div 2
                 total_items == n.capacity + 1
                 N == [node_create(NODE_LEAF, n.capacity) EXCEPT
                         !.keys   = SubSeq(temp_keys, mid + 1, total_items),
                         !.values = SubSeq(temp_values, mid + 1, total_items),
                         !.next   = n.next]
                 h1 == [h EXCEPT ![node].keys   = SubSeq(temp_keys, 1, mid),
                                 ![node].values = SubSeq(temp_values, 1, mid),
                                 ![node].next   = new_node]
             IN  InsertResult(Store(h1, new_node, N), 1, new_node, N.keys[1])
        ELSE InsertResult([h EXCEPT ![node].keys   = InsertAt(n.keys, pos, key),
                                    ![node].values = InsertAt(n.values, pos, value)],
                          0, NULL, NULL)

\* Mutant of node_insert_branch: the split test is num_keys > capacity, so a
\* branch that holds capacity keys takes one more.
node_insert_branch_split_late(h, node, key, right_child) ==
    LET n   == h[node]
        pos == node_find_position(n, key)
    IN  IF Len(n.keys) > n.capacity /\ PyAlloc(h) = NULL
        THEN InsertResult(h, -1, NULL, NULL)
        ELSE IF Len(n.keys) > n.capacity
        THEN LET new_node      == PyAlloc(h)
                 temp_keys     == InsertAt(n.keys, pos, key)
                 temp_children == InsertAt(n.children, pos + 1, right_child)
                 mid           == n.capacity \div 2
                 split_key     == temp_keys[mid + 1]
                 new_num_keys  == n.capacity - mid
                 N == [node_create(NODE_BRANCH, n.capacity) EXCEPT
                         !.keys     = SubSeq(temp_keys, mid + 2, mid + 1 + new_num_keys),
                         !.children = SubSeq(temp_children, mid + 2,
                                             mid + 2 + new_num_keys)]
                 h1 == [h EXCEPT ![node].keys     = SubSeq(temp_keys, 1, mid),
                                 ![node].children = SubSeq(temp_children, 1, mid + 1)]
             IN  InsertResult(Store(h1, new_node, N), 1, new_node, split_key)
        ELSE InsertResult([h EXCEPT ![node].keys = InsertAt(n.keys, pos, key),
                                    ![node].children =
                                        InsertAt(n.children, pos + 1, right_child)],
                          0, NULL, NULL)

\* Mutant of node_insert_branch: the promoted separator is also kept as the
\* last key of the left branch.
node_insert_branch_keeps_promoted(h, node, key, right_child) ==
    LET n   == h[node]
        pos == node_find_position(n, key)
    IN  IF Len(n.keys) >= n.capacity /\ PyAlloc(h) = NULL
        THEN InsertResult(h, -1, NULL, NULL)
        ELSE IF Len(n.keys) >= n.capacity
        THEN LET new_node      == PyAlloc(h)
                 temp_keys     == InsertAt(n.keys, pos, key)
                 temp_children == InsertAt(n.children, pos + 1, right_child)
                 mid           == n.capacity \div 2
                 split_key     == temp_keys[mid + 1]
                 new_num_keys  == n.capacity - mid
                 N == [node_create(NODE_BRANCH, n.capacity) EXCEPT
                         !.keys     = SubSeq(temp_keys, mid + 2, mid + 1 + new_num_keys),
                         !.children = SubSeq(temp_children, mid + 2,
                                             mid + 2 + new_num_keys)]
                 h1 == [h EXCEPT ![node].keys     = SubSeq(temp_keys, 1, mid + 1),
                                 ![node].children = SubSeq(temp_children, 1, mid + 1)]
             IN  InsertResult(Store(h1, new_node, N), 1, new_node, split_key)
        ELSE InsertResult([h EXCEPT ![node].keys = InsertAt(n.keys, pos, key),
                                    ![node].children =
                                        InsertAt(n.children, pos + 1, right_child)],
                          0, NULL, NULL)

node_insert_branch(h, node, key, right_child) ==
    LET n   == h[node]
        pos == node_find_position(n, key)
    IN  IF pos < 0 THEN InsertResult(h, -1, NULL, NULL)
        ELSE IF Len(n.keys) >= n.capacity /\ PyAlloc(h) = NULL
        THEN InsertResult(h, -1, NULL, NULL)
        ELSE IF Len(n.keys) >= n.capacity
        THEN LET new_node      == PyAlloc(h)
                 temp_keys     == InsertAt(n.keys, pos, key)
                 temp_children == InsertAt(n.children, pos + 1, right_child)
                 mid           == n.capacity \div 2
                 split_key     == temp_keys[mid + 1]
                 new_num_keys  == n.capacity - mid
                 N == [node_create(NODE_BRANCH, n.capacity) EXCEPT
                         !.keys     = SubSeq(temp_keys, mid + 2, mid + 1 + new_num_keys),
                         !.children = SubSeq(temp_children, mid + 2,
                                             mid + 2 + new_num_keys)]
                 h1 == [h EXCEPT ![node].keys     = SubSeq(temp_keys, 1, mid),
                                 ![node].children = SubSeq(temp_children, 1, mid + 1)]
             IN  InsertResult(Store(h1, new_node, N), 1, new_node, split_key)
        ELSE InsertResult([h EXCEPT ![node].keys = InsertAt(n.keys, pos, key),
                                    ![node].children =
                                        InsertAt(n.children, pos + 1, right_child)],
                          0, NULL, NULL)

\* Mutant of node_delete: the shift loop starts one slot late, so the last
\* entry is dropped instead of the one found.
node_delete_drop_last(h, node, key) ==
    LET n   == h[node]
        pos == node_find_position(n, key)
    IN  IF n.type # NODE_LEAF THEN [heap |-> h, result |-> 0]
        ELSE IF pos >= Len(n.keys) THEN [heap |-> h, result |-> 0]
        ELSE IF fast_compare_eq(node_get_key(n, pos), key) # 1
        THEN [heap |-> h, result |-> 0]
        ELSE [heap |-> [h EXCEPT ![node].keys   = RemoveAt(n.keys, Len(n.keys) - 1),
                                 ![node].values = RemoveAt(n.values, Len(n.keys) - 1)],
              result |-> 1]

node_delete(h, node, key) ==
    LET n   == h[node]
        pos == node_find_position(n, key)
    IN  IF n.type # NODE_LEAF THEN [heap |-> h, result |-> 0]
        ELSE IF pos < 0 THEN [heap |-> h, result |-> -1]
        ELSE IF pos >= Len(n.keys) THEN [heap |-> h, result |-> 0]
        ELSE IF fast_compare_eq(node_get_key(n, pos), key) < 0
        THEN [heap |-> h, result |-> -1]
        ELSE IF fast_compare_eq(node_get_key(n, pos), key) # 1
        THEN [heap |-> h, result |-> 0]
        ELSE [heap |-> [h EXCEPT ![node].keys   = RemoveAt(n.keys, pos),
                                 ![node].values = RemoveAt(n.values, pos)],
              result |-> 1]

\* node_get: the value, or NotFound for NULL with an exception set (KeyError,
\* or what the comparison raised).
node_get(h, node, key) ==
    LET n   == h[node]
        pos == node_find_position(n, key)
    IN  IF pos < 0 THEN NotFound
        ELSE IF pos < Len(n.keys) /\ fast_compare_eq(node_get_key(n, pos), key) = 1
        THEN node_get_value(n, pos)
        ELSE NotFound

\* Mutant of child_position: the plain lower bound, without the step to the
\* right on an equal key.
child_position_lower_bound(n, key) == node_find_position(n, key)

\* The child index chosen in a branch: lower bound, one further on an equal
\* key; -1 when a comparison raises.
child_position(n, key) ==
    LET pos == node_find_position(n, key)
    IN  IF pos < 0 THEN -1
        ELSE IF pos < Len(n.keys) /\ fast_compare_eq(node_get_key(n, pos), key) < 0
        THEN -1
        ELSE IF pos < Len(n.keys) /\ fast_compare_eq(node_get_key(n, pos), key) = 1
        THEN pos + 1 ELSE pos

RECURSIVE find_leaf_loop(_, _, _)
find_leaf_loop(h, node, key) ==
    IF h[node].type = NODE_BRANCH
    THEN IF child_position(h[node], key) < 0 THEN NULL
         ELSE find_leaf_loop(h, node_get_child(h[node], child_position(h[node], key)),
                             key)
    ELSE node

tree_find_leaf(t, h, key) == find_leaf_loop(h, t.root, key)

RECURSIVE tree_insert_recursive(_, _, _, _)
tree_insert_recursive(h, node, key, value) ==
    IF h[node].type = NODE_LEAF
    THEN node_insert_leaf(h, node, key, value)
    ELSE LET child_pos == child_position(h[node], key)
             child     == node_get_child(h[node], child_pos)
             r         == tree_insert_recursive(h, child, key, value)
         IN  IF child_pos < 0 THEN InsertResult(h, -1, NULL, NULL)
             ELSE IF r.result < 0 THEN r
             ELSE IF r.result = 0 THEN r
             ELSE node_insert_branch(r.heap, node, r.split_key, r.new_node)

\* Mutant of tree_insert: the size increment sits in the branch without a
\* root split, so an insert that splits the root is not counted.
tree_insert_root_split_uncounted(t, h, key, value) ==
    LET r == tree_insert_recursive(h, t.root, key, value)
    IN  IF r.result = -1 THEN [tree |-> t, heap |-> r.heap, result |-> -1]
        ELSE IF r.result = -2 THEN [tree |-> t, heap |-> r.heap, result |-> 0]
        ELSE IF r.result > 0 /\ PyAlloc(r.heap) = NULL
        THEN [tree |-> t, heap |-> r.heap, result |-> -1]
        ELSE IF r.result > 0
        THEN LET new_root == PyAlloc(r.heap)
                 R == [node_create(NODE_BRANCH, t.capacity) EXCEPT
                         !.keys     = <<r.split_key>>,
                         !.children = <<t.root, r.new_node>>]
             IN  [tree   |-> [t EXCEPT !.root = new_root],
                  heap   |-> Store(r.heap, new_root, R),
                  result |-> 0]
        ELSE [tree |-> [t EXCEPT !.size = @ + 1], heap |-> r.heap, result |-> 0]

\* Mutant of tree_insert: the update code -2 is not told apart from 0, so an
\* update increments size.
tree_insert_count_update(t, h, key, value) ==
    LET r == tree_insert_recursive(h, t.root, key, value)
    IN  IF r.result = -1 THEN [tree |-> t, heap |-> r.heap, result |-> -1]
        ELSE IF r.result > 0 /\ PyAlloc(r.heap) = NULL
        THEN [tree |-> t, heap |-> r.heap, result |-> -1]
        ELSE IF r.result > 0
        THEN LET new_root == PyAlloc(r.heap)
                 R == [node_create(NODE_BRANCH, t.capacity) EXCEPT
                         !.keys     = <<r.split_key>>,
                         !.children = <<t.root, r.new_node>>]
             IN  [tree   |-> [t EXCEPT !.root = new_root, !.size = @ + 1],
                  heap   |-> Store(r.heap, new_root, R),
                  result |-> 0]
        ELSE [tree |-> [t EXCEPT !.size = @ + 1], heap |-> r.heap, result |-> 0]

\* Mutant of tree_insert: the left child of a new root is the leftmost leaf
\* instead of the old root.
tree_insert_root_over_first_leaf(t, h, key, value) ==
    LET r == tree_insert_recursive(h, t.root, key, value)
    IN  IF r.result = -1 THEN [tree |-> t, heap |-> r.heap, result |-> -1]
        ELSE IF r.result = -2 THEN [tree |-> t, heap |-> r.heap, result |-> 0]
        ELSE IF r.result > 0 /\ PyAlloc(r.heap) = NULL
        THEN [tree |-> t, heap |-> r.heap, result |-> -1]
        ELSE IF r.result > 0
        THEN LET new_root == PyAlloc(r.heap)
                 R == [node_create(NODE_BRANCH, t.capacity) EXCEPT
                         !.keys     = <<r.split_key>>,
                         !.children = <<t.leaves, r.new_node>>]
             IN  [tree   |-> [t EXCEPT !.root = new_root, !.size = @ + 1],
                  heap   |-> Store(r.heap, new_root, R),
                  result |-> 0]
        ELSE [tree |-> [t EXCEPT !.size = @ + 1], heap |-> r.heap, result |-> 0]

tree_insert(t, h, key, value) ==
    LET r == tree_insert_recursive(h, t.root, key, value)
    IN  IF r.result = -1 THEN [tree |-> t, heap |-> r.heap, result |-> -1]
        ELSE IF r.result = -2 THEN [tree |-> t, heap |-> r.heap, result |-> 0]
        ELSE IF r.result > 0 /\ PyAlloc(r.heap) = NULL
        THEN [tree |-> t, heap |-> r.heap, result |-> -1]
        ELSE IF r.result > 0
        THEN LET new_root == PyAlloc(r.heap)
                 R == [node_create(NODE_BRANCH, t.capacity) EXCEPT
                         !.keys     = <<r.split_key>>,
                         !.children = <<t.root, r.new_node>>]
             IN  [tree   |-> [t EXCEPT !.root = new_root, !.size = @ + 1],
                  heap   |-> Store(r.heap, new_root, R),
                  result |-> 0]
        ELSE [tree |-> [t EXCEPT !.size = @ + 1], heap |-> r.heap, result |-> 0]

tree_delete(t, h, key) ==
    LET leaf == tree_find_leaf(t, h, key)
        r    == node_delete(h, leaf, key)
    IN  IF leaf = NULL THEN [tree |-> t, heap |-> h, result |-> -1]
        ELSE [tree   |-> IF r.result = 1 THEN [t EXCEPT !.size = @ - 1] ELSE t,
              heap   |-> r.heap,
              result |-> r.result]

tree_get(t, h, key) ==
    IF tree_find_leaf(t, h, key) = NULL THEN NotFound
    ELSE node_get(h, tree_find_leaf(t, h, key), key)

BPlusTree_contains(t, h, key) == tree_get(t, h, key) # NotFound

BPlusTree_length(t) == t.size

\* BPlusTree_new followed by BPlusTree_init(capacity); the root leaf is the
\* first block allocated.
BPlusTree_init(capacity) ==
    IF capacity < MIN_CAPACITY THEN [result |-> -1]
    ELSE [result |-> 0,
          tree |-> [root |-> 1, leaves |-> 1, capacity |-> capacity % UINT16,
                    min_keys |-> (capacity \div 2) % UINT16, size |-> 0],
          heap |-> Store(<<>>, 1, node_create(NODE_LEAF, capacity))]

\* BPlusTree_iter / BPlusTree_keys: a new iterator.
BPlusTree_iter(t) == [current_node |-> t.leaves, current_index |-> 0]

\* BPlusTreeIterator_next: the iterator afterwards, what is returned ("stop"
\* for StopIteration, else "key"), the key read, and whether the slot read
\* lies at or above num_keys of the leaf.
BPlusTreeIterator_next(h, it) ==
    IF it.current_node = NULL
    THEN [iter |-> it, out |-> "stop", key |-> NULL, beyond |-> FALSE]
    ELSE LET adv == it.current_index >= Len(h[it.current_node].keys)
             it1 == IF adv
                    THEN [current_node |-> h[it.current_node].next, current_index |-> 0]
                    ELSE it
         IN  IF it1.current_node = NULL
             THEN [iter |-> it1, out |-> "stop", key |-> NULL, beyond |-> FALSE]
             ELSE [iter   |-> [it1 EXCEPT !.current_index = @ + 1],
                   out    |-> "key",
                   key    |-> node_get_key(h[it1.current_node], it1.current_index),
                   beyond |-> it1.current_index >= Len(h[it1.current_node].keys)]

\* for k in tree: the keys yielded until StopIteration, or until a read at
\* or above num_keys (a NULL object, on which Py_INCREF faults).
RECURSIVE PyScanFrom(_, _, _)
PyScanFrom(h, it, acc) ==
    LET r == BPlusTreeIterator_next(h, it)
    IN  IF r.out = "stop" THEN [keys |-> acc, beyond |-> FALSE]
        ELSE IF r.beyond THEN [keys |-> acc, beyond |-> TRUE]
        ELSE PyScanFrom(h, r.iter, Append(acc, r.key))

PyFullScan(t, h) == PyScanFrom(h, BPlusTree_iter(t), <<>>)

(***************************************************************************)
(* Iterators of the C engine                                               *)
(***************************************************************************)

\* A NULL bptree_iterator_t pointer.
NULL_ITER == [null |-> TRUE]

\* start_key and end_key of a full iterator are not initialised and never
\* read: they are 0 here.  A failing malloc is not modelled for iterators.
bptree_iterator_new(t) ==
    IF t = NULL_TREE THEN NULL_ITER
    ELSE [current_node |-> t.first_leaf, current_index |-> 0,
          start_key |-> 0, end_key |-> 0, has_range |-> FALSE]

\* The functions below dereference iter->current_node when it is not NULL:
\* callers check UseAfterFree first.
UseAfterFree(h, it) ==
    it # NULL_ITER /\ it.current_node # NULL /\ it.current_node \notin DOMAIN h

\* The skip loop of bptree_range_iterator_new, from position (node, index).
\* It stops at a node that is not allocated: the loop condition reads it.
RECURSIVE range_skip(_, _, _, _)
range_skip(h, node, index, start_key) ==
    IF node = NULL \/ node \notin DOMAIN h THEN <<node, index>>
    ELSE IF index >= Len(h[node].keys) THEN <<node, index>>
    ELSE IF h[node].keys[index + 1] >= start_key THEN <<node, index>>
    ELSE IF index + 1 >= Len(h[node].keys)
    THEN range_skip(h, h[node].next, 0, start_key)
    ELSE range_skip(h, node, index + 1, start_key)

bptree_range_iterator_new(t, h, start_key, end_key) ==
    IF t = NULL_TREE THEN NULL_ITER
    ELSE LET pos == range_skip(h, t.first_leaf, 0, start_key)
         IN  [current_node |-> pos[1], current_index |-> pos[2],
              start_key |-> start_key, end_key |-> end_key, has_range |-> TRUE]

\* Mutant of bptree_iterator_has_next: the end of the range is inclusive.
bptree_iterator_has_next_inclusive(h, it) ==
    IF it = NULL_ITER THEN FALSE
    ELSE IF it.current_node = NULL THEN FALSE
    ELSE IF it.current_index >= Len(h[it.current_node].keys) THEN FALSE
    ELSE IF it.has_range
    THEN h[it.current_node].keys[it.current_index + 1] <= it.end_key
    ELSE TRUE

bptree_iterator_has_next(h, it) ==
    IF it = NULL_ITER THEN FALSE
    ELSE IF it.current_node = NULL THEN FALSE
    ELSE IF it.current_index >= Len(h[it.current_node].keys) THEN FALSE
    ELSE IF it.has_range
    THEN h[it.current_node].keys[it.current_index + 1] < it.end_key
    ELSE TRUE

\* bptree_iterator_next(iter, entry): entry is NULL or VALID; the entry
\* written through it is <<key, value>>, or <<>> when nothing is written.
bptree_iterator_next(h, it, entry) ==
    IF it = NULL_ITER \/ entry = NULL
    THEN [iter |-> it, result |-> "BPTREE_ERROR_NULL_POINTER", entry |-> <<>>]
    ELSE IF ~bptree_iterator_has_next(h, it)
    THEN [iter |-> it, result |-> "BPTREE_ERROR_INVALID_STATE", entry |-> <<>>]
    ELSE LET n   == h[it.current_node]
             idx == it.current_index + 1
         IN  [iter   |-> IF idx >= Len(n.keys)
                         THEN [it EXCEPT !.current_node = n.next, !.current_index = 0]
                         ELSE [it EXCEPT !.current_index = idx],
              result |-> "BPTREE_OK",
              entry  |-> <<n.keys[it.current_index + 1], n.values[it.current_index + 1]>>]

\* bptree_iterator_free: free(iter); the caller's pointer is not usable
\* afterwards, and free(NULL) does nothing.
bptree_iterator_free(it) == NULL_ITER

\* while (has_next(iter)) next(iter, &entry): the entries yielded, and whether
\* the loop ends by reading a freed node (then what follows is undefined).
RECURSIVE CScanFrom(_, _, _)
CScanFrom(h, it, acc) ==
    IF UseAfterFree(h, it) THEN [entries |-> acc, uaf |-> TRUE]
    ELSE IF ~bptree_iterator_has_next(h, it) THEN [entries |-> acc, uaf |-> FALSE]
    ELSE LET r == bptree_iterator_next(h, it, VALID)
         IN  CScanFrom(h, r.iter, Append(acc, r.entry))

CFullScan(t, h) == CScanFrom(h, bptree_iterator_new(t), <<>>)

(***************************************************************************)
(* Actions.  One call of an operation is one step.                         *)
(***************************************************************************)

Init ==
    \E c \in Capacities :
        /\ tree = bptree_new(c)
        /\ heap = <<>>
        /\ cres = "BPTREE_OK"
        /\ expect = [k \in AllKeys |-> NotFound]
        /\ pytree = BPlusTree_init(c).tree
        /\ pyheap = BPlusTree_init(c).heap
        /\ pyres = 0
        /\ pyexpect = [k \in AllKeys |-> NotFound]
        /\ last = "new"
        /\ engine \in {"c", "py"}
        /\ workload \in {"any", "grow"}
        /\ mutated = FALSE
        /\ iters = [i \in Slots |-> NULL_ITER]
        /\ ires = NoResult
        /\ seen = [i \in Slots |-> Unseen]
        /\ uaf = FALSE
        /\ memlimit = SIZE_MAX
        /\ raises = {}

\* bptree_insert(tree, k, v), the leaf it may allocate placed at a1; the
\* new root it may allocate after that leaf is the next block.
CInsert(k, v, a1) ==
    LET a2 == CHOOSE a \in Malloc(Cardinality(DOMAIN heap) + 1,
                                  {Fresh(tree, heap, {a1})}) : TRUE
        r  == bptree_insert(tree, heap, k, v, a1, a2)
    IN  /\ tree' = r.tree
        /\ heap' = r.heap
        /\ cres' = r.result
        /\ expect' = IF r.result = "BPTREE_OK" THEN [expect EXCEPT ![k] = v] ELSE expect

\* bptree_remove(tree, k)
CRemove(k) ==
    LET r == bptree_remove(tree, heap, k)
    IN  /\ tree' = r.tree
        /\ heap' = r.heap
        /\ cres' = r.result
        /\ expect' = IF r.result = "BPTREE_OK"
                     THEN [expect EXCEPT ![k] = NotFound] ELSE expect

\* bptree_clear(tree)
CClear ==
    LET r == bptree_clear(tree, heap)
    IN  /\ tree' = r.tree
        /\ heap' = r.heap
        /\ cres' = "BPTREE_OK"
        /\ expect' = [k \in AllKeys |-> NotFound]

\* tree[k] = v (BPlusTree_setitem -> tree_insert)
PyInsert(k, v) ==
    LET r == tree_insert(pytree, pyheap, k, v)
    IN  /\ pytree' = r.tree
        /\ pyheap' = r.heap
        /\ pyres' = r.result
        /\ pyexpect' = IF r.result = 0 THEN [pyexpect EXCEPT ![k] = v] ELSE pyexpect

\* del tree[k] (BPlusTree_delitem -> tree_delete)
PyDelete(k) ==
    LET r == tree_delete(pytree, pyheap, k)
    IN  /\ pytree' = r.tree
        /\ pyheap' = r.heap
        /\ pyres' = r.result
        /\ pyexpect' = IF r.result = 1 THEN [pyexpect EXCEPT ![k] = NotFound]
                       ELSE pyexpect

\* The callers.  The exhaustive workload ("any") inserts and deletes any key
\* of Keys with any value, in any order.  The growth workload ("grow") builds
\* deep trees: while size is below MaxSize it inserts, with value 1, a key of
\* DeepKeys that is not stored and is at most MaxGap above the number of
\* stored entries; once in a run it overwrites a stored key with value 2 or
\* deletes a key.  The iterator workload ("iter") inserts and removes any
\* key of Keys in any order, each key with one value.
MayInsert(size, present, k, v) ==
    IF workload = "any" THEN k \in Keys
    ELSE IF workload = "iter" THEN k \in Keys /\ v = 1 + (k % 2)
    ELSE IF workload = "cmp" THEN k \in CmpKeys /\ v = 1
    ELSE IF present THEN v = 2 /\ ~mutated
    ELSE v = 1 /\ k <= size + MaxGap /\ size < MaxSize

\* A call that may change the tree: an outstanding iterator is no longer
\* clean once the tree or a node has changed.
Mutation ==
    /\ seen' = IF tree' = tree /\ heap' = heap THEN seen
               ELSE [i \in Slots |-> IF iters[i] = NULL_ITER THEN seen[i]
                                     ELSE [entries |-> <<>>, clean |-> FALSE]]
    /\ ires' = NoResult
    /\ UNCHANGED <<iters, uaf>>

\* The keys a run's caller ever passes.
CallerKeys == IF workload \in {"any", "iter"} THEN Keys ELSE DeepKeys

MayDelete(k) == IF workload \in {"any", "iter"} THEN k \in Keys ELSE ~mutated

InsertC(k, v) ==
    /\ engine = "c"
    /\ MayInsert(bptree_size(tree), bptree_contains(tree, heap, k), k, v)
    /\ \E a1 \in Malloc(Cardinality(DOMAIN heap), AllocChoices(tree, heap)) :
           CInsert(k, v, a1)
    /\ last' = IF bptree_contains(tree, heap, k) THEN "update" ELSE "insert"
    /\ mutated' = (mutated \/ (workload = "grow" /\ v # 1))
    /\ Mutation
    /\ UNCHANGED <<pyvars, engine, workload, memlimit, raises>>

RemoveC(k) ==
    /\ engine = "c"
    /\ MayDelete(k)
    /\ CRemove(k)
    /\ last' = "remove"
    /\ mutated' = (workload = "grow")
    /\ Mutation
    /\ UNCHANGED <<pyvars, engine, workload, memlimit, raises>>

ClearC ==
    /\ engine = "c"
    /\ CClear
    /\ last' = "clear"
    /\ Mutation
    /\ UNCHANGED <<pyvars, engine, workload, memlimit, raises, mutated>>

InsertPy(k, v) ==
    /\ engine = "py"
    /\ MayInsert(BPlusTree_length(pytree), BPlusTree_contains(pytree, pyheap, k), k, v)
    /\ PyInsert(k, v)
    /\ last' = IF BPlusTree_contains(pytree, pyheap, k) THEN "update" ELSE "insert"
    /\ mutated' = (mutated \/ (workload = "grow" /\ v # 1))
    /\ UNCHANGED <<cvars, engine, workload, memlimit, raises, itervars>>

DeletePy(k) ==
    /\ engine = "py"
    /\ MayDelete(k)
    /\ PyDelete(k)
    /\ last' = "delete"
    /\ mutated' = (workload = "grow")
    /\ UNCHANGED <<cvars, engine, workload, memlimit, raises, itervars>>

Next ==
    \/ \E k \in AllKeys, v \in Values : InsertC(k, v)
    \/ \E k \in AllKeys : RemoveC(k)
    \/ ClearC
    \/ \E k \in AllKeys, v \in Values : InsertPy(k, v)
    \/ \E k \in AllKeys : DeletePy(k)

Spec == Init /\ [][Next]_vars

(***************************************************************************)
(* The C engine with its read operations and iterators.  The caller holds  *)
(* a tree pointer, which is NULL when bptree_new refused the capacity or   *)
(* after bptree_free, and two iterator pointers.  What a call returns once *)
(* it has read a freed node is undefined: the run ends there.              *)
(***************************************************************************)

InitIter ==
    \E c \in 0..BPTREE_MIN_CAPACITY :
        /\ tree = bptree_new(c)
        /\ heap = <<>>
        /\ cres = "BPTREE_OK"
        /\ expect = [k \in AllKeys |-> NotFound]
        /\ pytree = BPlusTree_init(MIN_CAPACITY).tree
        /\ pyheap = BPlusTree_init(MIN_CAPACITY).heap
        /\ pyres = 0
        /\ pyexpect = [k \in AllKeys |-> NotFound]
        /\ last = "new"
        /\ engine = "c"
        /\ workload = "iter"
        /\ mutated = FALSE
        /\ iters = [i \in Slots |-> NULL_ITER]
        /\ ires = NoResult
        /\ seen = [i \in Slots |-> Unseen]
        /\ uaf = FALSE
        /\ memlimit = SIZE_MAX
        /\ raises = {}

\* A read call: the caller's variables other than the result are as before.
ReadFrame ==
    UNCHANGED <<tree, heap, expect, pyvars, engine, workload, memlimit, raises, mutated>>

\* bptree_get(tree, k, out)
GetC(k, out) ==
    /\ cres' = bptree_get_out(tree, heap, k, out).result
    /\ ires' = bptree_get_out(tree, heap, k, out).value
    /\ last' = "get"
    /\ ReadFrame /\ UNCHANGED <<iters, seen, uaf>>

\* bptree_contains(tree, k)
ContainsC(k) ==
    /\ ires' = bptree_contains(tree, heap, k)
    /\ last' = "contains"
    /\ ReadFrame /\ UNCHANGED <<cres, iters, seen, uaf>>

\* bptree_size(tree)
SizeC ==
    /\ ires' = bptree_size(tree)
    /\ last' = "size"
    /\ ReadFrame /\ UNCHANGED <<cres, iters, seen, uaf>>

\* bptree_is_empty(tree)
IsEmptyC ==
    /\ ires' = bptree_is_empty(tree)
    /\ last' = "is_empty"
    /\ ReadFrame /\ UNCHANGED <<cres, iters, seen, uaf>>

\* iters[i] = bptree_iterator_new(tree), into an empty slot
IterNewC(i) ==
    /\ iters[i] = NULL_ITER
    /\ i = 2 => iters[1] # NULL_ITER /\ seen[1].clean
    /\ iters' = [iters EXCEPT ![i] = bptree_iterator_new(tree)]
    /\ seen' = [seen EXCEPT ![i] = Unseen]
    /\ ires' = NoResult
    /\ last' = "iterator_new"
    /\ ReadFrame /\ UNCHANGED <<cres, uaf>>

\* bptree_iterator_has_next(iters[i])
HasNextC(i) ==
    /\ IF UseAfterFree(heap, iters[i])
       THEN uaf' = TRUE /\ ires' = "undefined"
       ELSE uaf' = uaf /\ ires' = bptree_iterator_has_next(heap, iters[i])
    /\ last' = "has_next"
    /\ ReadFrame /\ UNCHANGED <<cres, iters, seen>>

\* bptree_iterator_next(iters[i], entry)
IterNextC(i, entry) ==
    /\ IF entry # NULL /\ UseAfterFree(heap, iters[i])
       THEN /\ uaf' = TRUE
            /\ ires' = "undefined"
            /\ UNCHANGED <<cres, iters, seen>>
       ELSE LET r == bptree_iterator_next(heap, iters[i], entry)
            IN  /\ uaf' = uaf
                /\ cres' = r.result
                /\ ires' = r.entry
                /\ iters' = [iters EXCEPT ![i] = r.iter]
                /\ seen' = IF r.result = "BPTREE_OK" /\ seen[i].clean
                           THEN [seen EXCEPT ![i].entries = Append(@, r.entry)]
                           ELSE seen
    /\ last' = "next"
    /\ ReadFrame

\* bptree_iterator_free(iters[i]); iters[i] = NULL
IterFreeC(i) ==
    /\ i = 1 => iters[2] = NULL_ITER
    /\ iters' = [iters EXCEPT ![i] = bptree_iterator_free(iters[i])]
    /\ seen' = [seen EXCEPT ![i] = Unseen]
    /\ ires' = NoResult
    /\ last' = "iterator_free"
    /\ ReadFrame /\ UNCHANGED <<cres, uaf>>

\* iter = bptree_range_iterator_new(tree, a, b);
\* while (bptree_iterator_has_next(iter)) bptree_iterator_next(iter, &entry);
\* bptree_iterator_free(iter)
RangeScanC(a, b) ==
    /\ LET s == CScanFrom(heap, bptree_range_iterator_new(tree, heap, a, b), <<>>)
       IN  /\ ires' = [start_key |-> a, end_key |-> b, entries |-> s.entries]
           /\ uaf' = s.uaf
    /\ last' = "range_scan"
    /\ ReadFrame /\ UNCHANGED <<cres, iters, seen>>

\* bptree_free(tree); tree = NULL
FreeC ==
    /\ heap' = bptree_free(tree, heap)
    /\ tree' = NULL_TREE
    /\ expect' = [k \in AllKeys |-> NotFound]
    /\ last' = "free"
    /\ Mutation
    /\ UNCHANGED <<cres, pyvars, engine, workload, memlimit, raises, mutated>>

\* The bounds a caller passes to bptree_range_iterator_new.
RangeEnds == 0..(MaxKey + 1)

\* The caller mutates the tree while it holds at most one iterator, and
\* makes a stateless read (get, contains, size, is_empty, a range scan)
\* while it holds none, after a call that is not such a read.
MayMutate == ~uaf /\ iters[2] = NULL_ITER

\* The node addresses the caller's iterators hold.
IterHeld ==
    {iters[i].current_node : i \in {j \in Slots : iters[j] # NULL_ITER}} \ {NULL}

\* The caller does not insert while an iterator designates a freed node:
\* malloc could hand that block out again, and a read through the stale
\* pointer would no longer be told from a read of a live node.
MayAllocate == IterHeld \subseteq DOMAIN heap
MayRead ==
    /\ ~uaf /\ \A i \in Slots : iters[i] = NULL_ITER
    /\ last \notin {"get", "contains", "size", "is_empty", "range_scan"}

NextIter ==
    \/ \E k \in Keys, v \in Values : MayMutate /\ MayAllocate /\ InsertC(k, v)
    \/ \E k \in Keys : MayMutate /\ RemoveC(k)
    \/ MayMutate /\ ClearC
    \/ MayMutate /\ FreeC
    \/ \E k \in Keys, out \in {NULL, VALID} : MayRead /\ GetC(k, out)
    \/ \E k \in Keys : MayRead /\ ContainsC(k)
    \/ MayRead /\ SizeC
    \/ MayRead /\ IsEmptyC
    \/ \E a \in RangeEnds, b \in RangeEnds : MayRead /\ RangeScanC(a, b)
    \/ \E i \in Slots : ~uaf /\ IterNewC(i)
    \/ \E i \in Slots : ~uaf /\ HasNextC(i)
    \/ \E i \in Slots, entry \in {NULL, VALID} : ~uaf /\ IterNextC(i, entry)
    \/ \E i \in Slots : ~uaf /\ IterFreeC(i)

SpecIter == InitIter /\ [][NextIter]_vars

(***************************************************************************)
(* One iterator over the trees of the growth workload: the caller inserts  *)
(* while it holds no iterator, then makes an iterator and walks it.        *)
(***************************************************************************)

InitWalk ==
    /\ tree = bptree_new(BPTREE_MIN_CAPACITY)
    /\ heap = <<>>
    /\ cres = "BPTREE_OK"
    /\ expect = [k \in AllKeys |-> NotFound]
    /\ pytree = BPlusTree_init(MIN_CAPACITY).tree
    /\ pyheap = BPlusTree_init(MIN_CAPACITY).heap
    /\ pyres = 0
    /\ pyexpect = [k \in AllKeys |-> NotFound]
    /\ last = "new"
    /\ engine = "c"
    /\ workload = "grow"
    /\ mutated = FALSE
    /\ iters = [i \in Slots |-> NULL_ITER]
    /\ ires = NoResult
    /\ seen = [i \in Slots |-> Unseen]
    /\ uaf = FALSE
    /\ memlimit = SIZE_MAX
    /\ raises = {}

NextWalk ==
    \/ \E k \in DeepKeys, v \in Values : ~uaf /\ iters[1] = NULL_ITER /\ InsertC(k, v)
    \/ ~uaf /\ IterNewC(1)
    \/ ~uaf /\ HasNextC(1)
    \/ ~uaf /\ IterNextC(1, VALID)
    \/ ~uaf /\ IterFreeC(1)

SpecWalk == InitWalk /\ [][NextWalk]_vars

(***************************************************************************)
(* Allocation failure: the growth workload on either engine, with an       *)
(* allocator that has room for memlimit nodes and returns NULL beyond.     *)
(***************************************************************************)

InitOom ==
    /\ tree = bptree_new(BPTREE_MIN_CAPACITY)
    /\ heap = <<>>
    /\ cres = "BPTREE_OK"
    /\ expect = [k \in AllKeys |-> NotFound]
    /\ pytree = BPlusTree_init(MIN_CAPACITY).tree
    /\ pyheap = BPlusTree_init(MIN_CAPACITY).heap
    /\ pyres = 0
    /\ pyexpect = [k \in AllKeys |-> NotFound]
    /\ last = "new"
    /\ engine \in {"c", "py"}
    /\ workload = "grow"
    /\ mutated = FALSE
    /\ iters = [i \in Slots |-> NULL_ITER]
    /\ ires = NoResult
    /\ seen = [i \in Slots |-> Unseen]
    /\ uaf = FALSE
    /\ memlimit \in 1..MaxLimit
    /\ raises = {}

\* The caller stops at the first report of an allocation failure.
NoOomYet == cres # "BPTREE_ERROR_OUT_OF_MEMORY" /\ pyres # -1

NextOom ==
    \/ \E k \in DeepKeys, v \in Values : NoOomYet /\ InsertC(k, v)
    \/ \E k \in DeepKeys, v \in Values : NoOomYet /\ InsertPy(k, v)

SpecOom == InitOom /\ [][NextOom]_vars

(***************************************************************************)
(* Comparison failure: the Python engine with keys of which one pair       *)
(* cannot be compared (the comparison of the two raises), inserted in any  *)
(* order.                                                                  *)
(***************************************************************************)

InitCmp ==
    /\ tree = bptree_new(BPTREE_MIN_CAPACITY)
    /\ heap = <<>>
    /\ cres = "BPTREE_OK"
    /\ expect = [k \in AllKeys |-> NotFound]
    /\ pytree = BPlusTree_init(MIN_CAPACITY).tree
    /\ pyheap = BPlusTree_init(MIN_CAPACITY).heap
    /\ pyres = 0
    /\ pyexpect = [k \in AllKeys |-> NotFound]
    /\ last = "new"
    /\ engine = "py"
    /\ workload = "cmp"
    /\ mutated = FALSE
    /\ iters = [i \in Slots |-> NULL_ITER]
    /\ ires = NoResult
    /\ seen = [i \in Slots |-> Unseen]
    /\ uaf = FALSE
    /\ memlimit = SIZE_MAX
    /\ \E a \in CmpKeys, b \in CmpKeys : raises = IF a < b THEN {{a, b}} ELSE {}

NextCmp == \E k \in CmpKeys, v \in Values : InsertPy(k, v)

SpecCmp == InitCmp /\ [][NextCmp]_vars

(***************************************************************************)
(* Construction: the caller constructs a tree with any capacity of         *)
(* CNewCapacities (C engine) or PyNewCapacities (Python engine), among     *)
(* them capacities for which the size of a node wraps around size_t and    *)
(* capacities that do not fit in the 16 bits of the Python engine's        *)
(* tree->capacity, and then uses the trees whose nodes have room for 4 to  *)
(* MaxCapacity keys.  (A node with less room than its capacity is written  *)
(* past its end by the first insert or the first split; the caller of this *)
(* specification only constructs such trees.)                              *)
(***************************************************************************)

CNewCapacities ==
    ((BPTREE_MIN_CAPACITY - 1)..MaxCapacity) \cup {SIZE_MAX \div 2, SIZE_MAX}

PyNewCapacities ==
    ((MIN_CAPACITY - 1)..MaxCapacity) \cup {UINT16 + c : c \in 0..MaxCapacity}

InitNew ==
    /\ engine \in {"c", "py"}
    /\ \E c \in CNewCapacities :
           /\ bptree_new(c) # NULL_TREE
           /\ engine = "py" => c = BPTREE_MIN_CAPACITY
           /\ tree = bptree_new(c)
    /\ heap = <<>>
    /\ cres = "BPTREE_OK"
    /\ expect = [k \in AllKeys |-> NotFound]
    /\ \E c \in PyNewCapacities :
           /\ BPlusTree_init(c).result = 0
           /\ engine = "c" => c = MIN_CAPACITY
           /\ pytree = BPlusTree_init(c).tree
           /\ pyheap = BPlusTree_init(c).heap
    /\ pyres = 0
    /\ pyexpect = [k \in AllKeys |-> NotFound]
    /\ last = "new"
    /\ workload = "any"
    /\ mutated = FALSE
    /\ iters = [i \in Slots |-> NULL_ITER]
    /\ ires = NoResult
    /\ seen = [i \in Slots |-> Unseen]
    /\ uaf = FALSE
    /\ memlimit = SIZE_MAX
    /\ raises = {}

\* bptree_free(tree); tree = bptree_new(capacity)
NewC(capacity) ==
    /\ engine = "c"
    /\ heap' = bptree_free(tree, heap)
    /\ tree' = bptree_new(capacity)
    /\ expect' = [k \in AllKeys |-> NotFound]
    /\ last' = "new"
    /\ Mutation
    /\ UNCHANGED <<cres, pyvars, engine, workload, memlimit, raises, mutated>>

\* BPlusTree(capacity): a new tree takes the place of the caller's tree, or
\* ValueError is raised and the caller keeps the tree it has.
NewPy(capacity) ==
    /\ engine = "py"
    /\ IF BPlusTree_init(capacity).result < 0
       THEN /\ pyres' = -1
            /\ UNCHANGED <<pytree, pyheap, pyexpect>>
       ELSE /\ pytree' = BPlusTree_init(capacity).tree
            /\ pyheap' = BPlusTree_init(capacity).heap
            /\ pyres' = 0
            /\ pyexpect' = [k \in AllKeys |-> NotFound]
    /\ last' = "new"
    /\ UNCHANGED <<cvars, engine, workload, memlimit, raises, itervars, mutated>>

\* The caller's tree has nodes of 4 to MaxCapacity keys.
Usable ==
    IF engine = "c" THEN tree # NULL_TREE /\ tree.capacity \in Capacities
    ELSE pytree.capacity \in Capacities

NextNew ==
    \/ \E c \in CNewCapacities : NewC(c)
    \/ \E c \in PyNewCapacities : NewPy(c)
    \/ \E k \in Keys, v \in Values : Usable /\ InsertC(k, v)
    \/ \E k \in Keys : Usable /\ RemoveC(k)
    \/ \E k \in Keys, v \in Values : Usable /\ InsertPy(k, v)
    \/ \E k \in Keys : Usable /\ DeletePy(k)

SpecNew == InitNew /\ [][NextNew]_vars

(***************************************************************************)
(* Properties                                                              *)
(***************************************************************************)

StrictlyAscending(s) == \A i \in 1..(Len(s) - 1) : s[i] < s[i + 1]

Range(s) == {s[i] : i \in 1..Len(s)}

\* Number of leaf slots of heap h that hold key k.
COccurrences(h, k) ==
    Cardinality({xi \in UNION {{<<x, i>> : i \in 1..Len(h[x].keys)} : x \in DOMAIN h} :
                    h[xi[1]].is_leaf /\ h[xi[1]].keys[xi[2]] = k})

PyOccurrences(h, k) ==
    Cardinality({xi \in UNION {{<<x, i>> : i \in 1..Len(h[x].keys)} : x \in DOMAIN h} :
                    h[xi[1]].type = NODE_LEAF /\ h[xi[1]].keys[xi[2]] = k})

PyRootIsBranch == pyheap[pytree.root].type = NODE_BRANCH

CRootIsBranch == tree.root # NULL /\ ~heap[tree.root].is_leaf

\* The root of the Python tree is a branch whose children are branches.
PyRootOverBranches ==
    /\ PyRootIsBranch
    /\ pyheap[node_get_child(pyheap[pytree.root], 0)].type = NODE_BRANCH

\* C1: in the Python engine, after any sequence of inserts, updates and
\* deletes, tree_get(k) returns the value of the most recent tree_insert of k
\* if k has not been deleted since, and reports not-found for any other key.
C1_GetReturnsLatest ==
    engine = "py" => \A k \in AllKeys : tree_get(pytree, pyheap, k) = pyexpect[k]

\* C1 witness: a delete has just removed a key that is a separator in the
\* root of a three-level tree, and the other keys are still stored.
C1_Witness ==
    /\ engine = "py" /\ last = "delete" /\ pyres = 1
    /\ PyRootOverBranches
    /\ \E s \in Range(pyheap[pytree.root].keys) : pyexpect[s] = NotFound
    /\ BPlusTree_length(pytree) >= 12

\* C2: in the C engine every key whose bptree_insert returned BPTREE_OK (and
\* that was not removed since) is found by bptree_get / bptree_contains with
\* its latest value, after every later insert, whatever that insert returned.
C2_InsertedKeysRetrievable ==
    engine = "c" =>
        \A k \in AllKeys :
            expect[k] # NotFound =>
                /\ bptree_contains(tree, heap, k)
                /\ bptree_get(tree, heap, k).value = expect[k]

\* C3: in the C engine bptree_size equals the number of entries a new full
\* iterator yields, and the scan reads no freed node.
C3_SizeEqualsScan ==
    engine = "c" =>
        /\ ~CFullScan(tree, heap).uaf
        /\ Len(CFullScan(tree, heap).entries) = bptree_size(tree)

\* C4: in the Python engine a full iteration from tree->leaves yields exactly
\* the stored keys, each once, strictly ascending, tree->size of them, and
\* never reads a key slot at an index >= num_keys.
C4_IterationYieldsStoredKeys ==
    engine = "py" =>
        LET scan == PyFullScan(pytree, pyheap)
        IN  /\ ~scan.beyond
            /\ StrictlyAscending(scan.keys)
            /\ Range(scan.keys) = {k \in AllKeys : pyexpect[k] # NotFound}
            /\ Len(scan.keys) = pytree.size

\* C5: in the C engine bptree_insert returns BPTREE_OK for every key (no
\* allocation fails in this model); it never returns INVALID_STATE.
C5_InsertAlwaysOk ==
    (engine = "c" /\ last \in {"insert", "update"}) => cres = "BPTREE_OK"

\* C6: when bptree_insert returns BPTREE_ERROR_INVALID_STATE the tree is as
\* before the call: same pairs retrievable, same size, no leaf lost entries,
\* and a full scan yields bptree_size entries in ascending order.
C6_FailedInsertLeavesTree ==
    [][(engine = "c" /\ last' \in {"insert", "update"}
           /\ cres' = "BPTREE_ERROR_INVALID_STATE") =>
          /\ \A k \in AllKeys : bptree_get(tree', heap', k) = bptree_get(tree, heap, k)
          /\ bptree_size(tree') = bptree_size(tree)
          /\ \A x \in DOMAIN heap : x \in DOMAIN heap' /\ heap'[x].keys = heap[x].keys
          /\ ~CFullScan(tree', heap').uaf
          /\ Len(CFullScan(tree', heap').entries) = bptree_size(tree')
          /\ StrictlyAscending([i \in 1..Len(CFullScan(tree', heap').entries) |->
                                  CFullScan(tree', heap').entries[i][1]])]_vars

\* C7: in both engines, when a delete of k reports success, k is no longer
\* found, size is one less, and every other key keeps its value.
C7_DeleteRemovesOnlyKey ==
    [][\A k \in CallerKeys :
          /\ (last' = "remove" /\ cres' = "BPTREE_OK" /\ RemoveC(k)) =>
                 /\ ~bptree_contains(tree', heap', k)
                 /\ bptree_size(tree') = bptree_size(tree) - 1
                 /\ \A j \in CallerKeys \ {k} :
                        bptree_get(tree', heap', j) = bptree_get(tree, heap, j)
          /\ (last' = "delete" /\ pyres' = 1 /\ DeletePy(k)) =>
                 /\ ~BPlusTree_contains(pytree', pyheap', k)
                 /\ BPlusTree_length(pytree') = BPlusTree_length(pytree) - 1
                 /\ \A j \in CallerKeys \ {k} :
                        tree_get(pytree', pyheap', j) = tree_get(pytree, pyheap, j)]_vars

\* C7 witness: a delete has just succeeded in a two-level Python tree and
\* left a leaf without keys while other keys are stored.
C7_Witness ==
    /\ engine = "py" /\ last = "delete" /\ pyres = 1
    /\ PyRootIsBranch
    /\ \E x \in DOMAIN pyheap : pyheap[x].type = NODE_LEAF /\ pyheap[x].keys = <<>>
    /\ BPlusTree_length(pytree) >= 2

\* C8: in the C engine bptree_remove(k) returns BPTREE_OK and removes k when k
\* is present, BPTREE_ERROR_KEY_NOT_FOUND when k is absent, and nothing else.
C8_RemoveResultCodes ==
    [][\A k \in CallerKeys :
          (last' = "remove" /\ RemoveC(k)) =>
             /\ bptree_contains(tree, heap, k) =>
                    (cres' = "BPTREE_OK" /\ ~bptree_contains(tree', heap', k))
             /\ ~bptree_contains(tree, heap, k) =>
                    cres' = "BPTREE_ERROR_KEY_NOT_FOUND"]_vars

\* C9: in both engines deleting a key that is not in the tree reports
\* not-found and changes nothing (size, pairs, nodes, leaf chain).
C9_DeleteAbsentIsNoOp ==
    [][\A k \in CallerKeys :
          /\ (last' = "remove" /\ ~bptree_contains(tree, heap, k) /\ RemoveC(k)) =>
                 (cres' = "BPTREE_ERROR_KEY_NOT_FOUND" /\ tree' = tree /\ heap' = heap)
          /\ (last' = "delete" /\ ~BPlusTree_contains(pytree, pyheap, k) /\ DeletePy(k)) =>
                 (pyres' = 0 /\ pytree' = pytree /\ pyheap' = pyheap)]_vars

\* C10: in both engines inserting a key that is already present replaces its
\* value, leaves size unchanged, creates no second entry for the key and
\* leaves every other key's value unchanged.
C10_UpdateInPlace ==
    [][last' = "update" =>
          \A k \in CallerKeys :
             /\ (engine = "c" /\ bptree_contains(tree, heap, k)) =>
                   \A v \in Values :
                      InsertC(k, v) =>
                         /\ cres' = "BPTREE_OK"
                         /\ bptree_get(tree', heap', k).value = v
                         /\ bptree_size(tree') = bptree_size(tree)
                         /\ COccurrences(heap', k) = 1
                         /\ \A j \in CallerKeys \ {k} :
                               bptree_get(tree', heap', j) = bptree_get(tree, heap, j)
             /\ (engine = "py" /\ BPlusTree_contains(pytree, pyheap, k)) =>
                   \A v \in Values :
                      InsertPy(k, v) =>
                         /\ pyres' = 0
                         /\ tree_get(pytree', pyheap', k) = v
                         /\ BPlusTree_length(pytree') = BPlusTree_length(pytree)
                         /\ PyOccurrences(pyheap', k) = 1
                         /\ \A j \in CallerKeys \ {k} :
                               tree_get(pytree', pyheap', j) = tree_get(pytree, pyheap, j)]_vars

\* C10 witness: an update has just changed the value of a key that is a
\* separator in the root of a three-level Python tree.
C10_Witness ==
    /\ engine = "py" /\ last = "update" /\ pyres = 0
    /\ PyRootOverBranches
    /\ \E s \in Range(pyheap[pytree.root].keys) :
           tree_get(pytree, pyheap, s) = 2 /\ PyOccurrences(pyheap, s) = 1

\* C11: in the Python engine a tree_insert of a key the tree did not hold
\* adds exactly one to tree->size, whether no node, a leaf, branches or the
\* root split; a tree_insert of a key the tree held leaves tree->size as is.
C11_SizeCountsNewKeys ==
    [][engine = "py" =>
          /\ last' = "insert" =>
                 BPlusTree_length(pytree') = BPlusTree_length(pytree) + 1
          /\ last' = "update" =>
                 BPlusTree_length(pytree') = BPlusTree_length(pytree)]_vars

\* C11 witness: the insert just made has split a leaf, the branch above it
\* and the root: the new root has one key and branches below it.
C11_Witness ==
    /\ engine = "py" /\ last = "insert" /\ pyres = 0
    /\ PyRootOverBranches
    /\ Len(pyheap[pytree.root].keys) = 1
    /\ \A k \in DeepKeys : tree_get(pytree, pyheap, k) # NotFound

\* The entries a caller expects from a range [a, b): the keys k it has stored
\* with a <= k < b, ascending, each with the value it stored last.
RECURSIVE ExpectedFrom(_, _)
ExpectedFrom(k, b) ==
    IF k >= b \/ k > MaxKey THEN <<>>
    ELSE IF k >= 1 /\ expect[k] # NotFound
    THEN <<(<<k, expect[k]>>)>> \o ExpectedFrom(k + 1, b)
    ELSE ExpectedFrom(k + 1, b)

C13_IteratorNeverReadsFreedNode == tree # NULL_TREE => ~uaf

\* What C14 says of slot i on one step: an iterator that was made after the
\* last change of the tree designates no freed node; bptree_iterator_next
\* returns BPTREE_OK exactly when bptree_iterator_has_next is true; on an
\* exhausted iterator it returns BPTREE_ERROR_INVALID_STATE, writes no entry
\* and leaves the iterator as it is; has_next, once false, is false after the
\* step; a full iterator is exhausted exactly when it has yielded
\* bptree_size(tree) entries.
IteratorContract(i) ==
    (iters[i] # NULL_ITER /\ seen[i].clean /\ seen'[i].clean) =>
        /\ ~UseAfterFree(heap, iters[i])
        /\ LET has_next == bptree_iterator_has_next(heap, iters[i])
           IN  /\ (last' = "next" /\ IterNextC(i, VALID)) =>
                      /\ (cres' = "BPTREE_OK") = has_next
                      /\ ~has_next =>
                             /\ cres' = "BPTREE_ERROR_INVALID_STATE"
                             /\ iters'[i] = iters[i]
                             /\ ires' = <<>>
               /\ ~has_next => ~bptree_iterator_has_next(heap', iters'[i])
               /\ ~iters[i].has_range =>
                      (~has_next) = (Len(seen[i].entries) = bptree_size(tree))

\* C14: for an iterator over a tree that is not changed while the iterator is
\* in use, bptree_iterator_next returns BPTREE_OK exactly when
\* bptree_iterator_has_next is true, a full iterator is exhausted after
\* exactly bptree_size successful next calls, has_next stays false once it
\* is false, and next on an exhausted iterator returns
\* BPTREE_ERROR_INVALID_STATE and changes neither the iterator nor the entry.
C14_IteratorContract == [][\A i \in Slots : IteratorContract(i)]_vars

\* C15: an insert during which a node allocation fails reports out of memory
\* (BPTREE_ERROR_OUT_OF_MEMORY; -1 from tree_insert) and leaves the tree as it
\* was: the same size, the same result of every lookup, the same entries
\* along the leaf chain and no freed node in it.
C15_OomLeavesTree ==
    [][/\ (engine = "c" /\ cres' = "BPTREE_ERROR_OUT_OF_MEMORY") =>
              /\ bptree_size(tree') = bptree_size(tree)
              /\ \A k \in DeepKeys :
                     bptree_get(tree', heap', k) = bptree_get(tree, heap, k)
              /\ CFullScan(tree', heap') = CFullScan(tree, heap)
              /\ Dangling(tree', heap') = Dangling(tree, heap)
       /\ (engine = "py" /\ pyres' = -1) =>
              /\ BPlusTree_length(pytree') = BPlusTree_length(pytree)
              /\ \A k \in DeepKeys :
                     tree_get(pytree', pyheap', k) = tree_get(pytree, pyheap, k)
              /\ PyFullScan(pytree', pyheap') = PyFullScan(pytree, pyheap)]_vars

\* C16: after bptree_clear of a tree the size is 0, bptree_is_empty is true,
\* no key is found, a full iterator and every range iterator made afterwards
\* is exhausted at once, and the tree is as bptree_new made it with no node
\* allocated, so that later inserts work as on a new tree; a bptree_clear
\* that follows a bptree_clear changes nothing.
C16_ClearEmptiesTree ==
    [][(last' = "clear" /\ tree # NULL_TREE) =>
          /\ bptree_size(tree') = 0
          /\ bptree_is_empty(tree')
          /\ \A k \in Keys :
                 /\ ~bptree_contains(tree', heap', k)
                 /\ bptree_get(tree', heap', k).result = "BPTREE_ERROR_KEY_NOT_FOUND"
          /\ ~UseAfterFree(heap', bptree_iterator_new(tree'))
          /\ ~bptree_iterator_has_next(heap', bptree_iterator_new(tree'))
          /\ \A a \in RangeEnds, b \in RangeEnds :
                 /\ ~UseAfterFree(heap', bptree_range_iterator_new(tree', heap', a, b))
                 /\ ~bptree_iterator_has_next(heap',
                                              bptree_range_iterator_new(tree', heap', a, b))
          /\ tree' = bptree_new(tree.capacity)
          /\ DOMAIN heap' = {}
          /\ last = "clear" => (tree' = tree /\ heap' = heap)]_vars

\* C16 witness: bptree_clear has freed the leaf an outstanding iterator had
\* reached after two or more entries, and the tree is empty.
C16_Witness ==
    /\ last = "clear" /\ tree # NULL_TREE
    /\ bptree_size(tree) = 0
    /\ iters[1] # NULL_ITER /\ UseAfterFree(heap, iters[1])
    /\ iters[1].current_index >= 2

ReadCalls ==
    {"get", "contains", "size", "is_empty", "iterator_new", "range_scan",
     "has_next", "next"}

\* C18: bptree_get, bptree_contains, bptree_size, bptree_is_empty, making an
\* iterator or a range iterator, bptree_iterator_has_next and
\* bptree_iterator_next leave the tree and its nodes as they are;
\* bptree_contains(k) is true exactly when bptree_get(k) returns BPTREE_OK;
\* and a bptree_iterator_next on one iterator leaves the other iterator, and
\* what that iterator yields next, as they are.
C18_ReadsLeaveTree ==
    [][/\ last' \in ReadCalls => (tree' = tree /\ heap' = heap)
       /\ last' = "contains" =>
              \A k \in Keys :
                  ContainsC(k) =>
                      ires' = (bptree_get_out(tree, heap, k, VALID).result = "BPTREE_OK")
       /\ last' = "next" =>
              \A i \in Slots :
                  (IterNextC(i, VALID) /\ ~UseAfterFree(heap, iters[3 - i])) =>
                      /\ iters'[3 - i] = iters[3 - i]
                      /\ bptree_iterator_next(heap', iters'[3 - i], VALID) =
                             bptree_iterator_next(heap, iters[3 - i], VALID)]_vars

\* C18 witness: two iterators over a two-level tree have both been advanced
\* and stand at different positions.
C18_Witness ==
    /\ last = "next" /\ ~uaf
    /\ tree # NULL_TREE /\ CRootIsBranch
    /\ iters[1] # NULL_ITER /\ iters[2] # NULL_ITER
    /\ Len(seen[1].entries) >= 1 /\ Len(seen[2].entries) >= 1
    /\ Len(seen[1].entries) # Len(seen[2].entries)

\* The invariants of a C tree: the leaf chain holds no freed node, its keys
\* ascend, size is the number of entries in it, and every key in it is found
\* from the root.
CTreeInvariants ==
    LET scan == CFullScan(tree, heap)
    IN  /\ ~scan.uaf
        /\ StrictlyAscending([i \in 1..Len(scan.entries) |-> scan.entries[i][1]])
        /\ Len(scan.entries) = bptree_size(tree)
        /\ \A i \in 1..Len(scan.entries) :
               bptree_get(tree, heap, scan.entries[i][1]).result = "BPTREE_OK"

\* C19: in every state the public operations reach, bptree_validate(tree)
\* is true if the tree satisfies its invariants and false if it does not.
C19_ValidateTellsInvariants ==
    engine = "c" => (bptree_validate(tree) = CTreeInvariants)

\* C20: a call with a NULL tree, a NULL iterator or a NULL out pointer
\* returns its error value and touches no tree: bptree_insert, bptree_get,
\* bptree_remove and bptree_iterator_next return BPTREE_ERROR_NULL_POINTER,
\* bptree_contains and bptree_iterator_has_next return false, bptree_size
\* returns 0, bptree_is_empty returns true, bptree_iterator_new and
\* bptree_range_iterator_new return NULL, and bptree_free, bptree_clear and
\* bptree_iterator_free do nothing.
C20_NullArguments ==
    [][/\ tree = NULL_TREE =>
              /\ tree' = tree /\ heap' = heap
              /\ last' \in {"insert", "update", "get", "remove"} =>
                     cres' = "BPTREE_ERROR_NULL_POINTER"
              /\ last' = "contains" => ires' = FALSE
              /\ last' = "size" => ires' = 0
              /\ last' = "is_empty" => ires' = TRUE
              /\ last' = "iterator_new" =>
                     \A i \in Slots : IterNewC(i) => iters'[i] = NULL_ITER
              /\ last' = "range_scan" =>
                     /\ ires'.entries = <<>>
                     /\ \A a \in RangeEnds, b \in RangeEnds :
                            bptree_range_iterator_new(tree, heap, a, b) = NULL_ITER
       /\ \A i \in Slots :
              iters[i] = NULL_ITER =>
                  /\ (last' = "has_next" /\ HasNextC(i)) =>
                         /\ ires' = FALSE
                         /\ tree' = tree /\ heap' = heap /\ iters' = iters
                  /\ (last' = "next" /\ IterNextC(i, VALID)) =>
                         /\ cres' = "BPTREE_ERROR_NULL_POINTER"
                         /\ tree' = tree /\ heap' = heap /\ iters' = iters
                  /\ (last' = "iterator_free" /\ IterFreeC(i)) =>
                         (tree' = tree /\ heap' = heap /\ iters' = iters)
       /\ last' = "get" =>
              \A k \in Keys :
                  GetC(k, NULL) =>
                      /\ cres' = "BPTREE_ERROR_NULL_POINTER"
                      /\ tree' = tree /\ heap' = heap
       /\ last' = "next" =>
              \A i \in Slots :
                  IterNextC(i, NULL) =>
                      /\ cres' = "BPTREE_ERROR_NULL_POINTER"
                      /\ tree' = tree /\ heap' = heap /\ iters' = iters]_vars

\* C20 witness: bptree_iterator_next has been called on a NULL iterator of a
\* NULL tree and has returned BPTREE_ERROR_NULL_POINTER.
C20_Witness ==
    /\ tree = NULL_TREE
    /\ \A i \in Slots : iters[i] = NULL_ITER
    /\ last = "next"
    /\ cres = "BPTREE_ERROR_NULL_POINTER"

(***************************************************************************)
(* Structure of the trees                                                  *)
(***************************************************************************)

\* The nodes node_destroy(node) visits: node and everything below it.
RECURSIVE PySubtree(_, _)
PySubtree(h, node) ==
    IF node = NULL THEN {}
    ELSE IF h[node].type = NODE_LEAF THEN {node}
    ELSE {node} \cup UNION {PySubtree(h, node_get_child(h[node], i)) :
                               i \in 0..Len(h[node].keys)}

\* C21: in the Python engine, after any sequence of tree_insert and
\* tree_delete calls, every node other than the root holds at least
\* tree->min_keys = capacity / 2 keys.
C21_MinOccupancy ==
    engine = "py" =>
        \A x \in PySubtree(pyheap, pytree.root) \ {pytree.root} :
            Len(pyheap[x].keys) >= pytree.min_keys

\* The keys held by the nodes of the subtree of node, separators included.
PySubtreeKeys(h, node) == UNION {Range(h[x].keys) : x \in PySubtree(h, node)}

\* C22: in the Python engine, after any sequence of inserts and deletes, every
\* branch with n separator keys has exactly n + 1 children, none of them
\* NULL, and every key in the subtree of child i is below separator i (when
\* i < n) and at or above separator i - 1 (when i > 0).
C22_BranchOrdering ==
    engine = "py" =>
        \A x \in PySubtree(pyheap, pytree.root) :
            pyheap[x].type = NODE_BRANCH =>
                LET n == pyheap[x]
                IN  /\ Len(n.children) = Len(n.keys) + 1
                    /\ \A i \in 1..Len(n.children) :
                           n.children[i] # NULL /\ n.children[i] \in DOMAIN pyheap
                    /\ \A i \in 0..Len(n.keys) :
                           \A k \in PySubtreeKeys(pyheap, node_get_child(n, i)) :
                               /\ i < Len(n.keys) => k < node_get_key(n, i)
                               /\ i > 0 => k >= node_get_key(n, i - 1)

\* C22 witness: a delete has just removed, from a three-level tree, a key
\* that is a separator of a branch below the root.
C22_Witness ==
    /\ engine = "py" /\ last = "delete" /\ pyres = 1
    /\ PyRootOverBranches
    /\ \E x \in PySubtree(pyheap, pytree.root) \ {pytree.root} :
           /\ pyheap[x].type = NODE_BRANCH
           /\ \E s \in Range(pyheap[x].keys) : pyexpect[s] = NotFound

\* C23: in both engines, between operations, the keys of every node are
\* strictly ascending, no key is held by two leaf slots, no node holds more
\* keys than its capacity, a leaf holds one value per key and a branch at
\* most capacity + 1 children.
C23_NodesSortedWithinCapacity ==
    /\ engine = "c" =>
           /\ \A x \in DOMAIN heap :
                  /\ StrictlyAscending(heap[x].keys)
                  /\ Len(heap[x].keys) <= heap[x].capacity
                  /\ heap[x].is_leaf => Len(heap[x].values) = Len(heap[x].keys)
                  /\ ~heap[x].is_leaf => Len(heap[x].children) <= heap[x].capacity + 1
           /\ \A k \in CallerKeys : COccurrences(heap, k) <= 1
    /\ engine = "py" =>
           /\ \A x \in DOMAIN pyheap :
                  /\ StrictlyAscending(pyheap[x].keys)
                  /\ Len(pyheap[x].keys) <= pyheap[x].capacity
                  /\ pyheap[x].type = NODE_LEAF =>
                         Len(pyheap[x].values) = Len(pyheap[x].keys)
                  /\ pyheap[x].type = NODE_BRANCH =>
                         Len(pyheap[x].children) <= pyheap[x].capacity + 1
           /\ \A k \in CallerKeys : PyOccurrences(pyheap, k) <= 1

\* C23 witness: an insert into the Python tree has just filled a leaf to its
\* capacity under a root branch that holds capacity keys.
C23_Witness ==
    /\ engine = "py" /\ last = "insert" /\ pyres = 0
    /\ PyRootIsBranch
    /\ Len(pyheap[pytree.root].keys) = pytree.capacity
    /\ \E x \in PySubtree(pyheap, pytree.root) :
           pyheap[x].type = NODE_LEAF /\ Len(pyheap[x].keys) = pytree.capacity

\* C24: in both engines, for every key held by a leaf, the descent from the
\* root that get, insert and delete use (lower bound in each branch, one
\* child further right when the key equals the separator) ends in the leaf
\* that holds the key, after every split and also for a key that equals a
\* promoted separator.
C24_DescentReachesLeaf ==
    /\ engine = "c" =>
           \A x \in DOMAIN heap :
               heap[x].is_leaf =>
                   \A k \in Range(heap[x].keys) : navigate(heap, tree.root, k) = x
    /\ engine = "py" =>
           \A x \in DOMAIN pyheap :
               pyheap[x].type = NODE_LEAF =>
                   \A k \in Range(pyheap[x].keys) : tree_find_leaf(pytree, pyheap, k) = x

\* C24 witness: an insert has just split a leaf of a three-level Python tree,
\* and the separator of the root and a separator of a branch below it are
\* each the first key of the leaf their descent ends in.
C24_Witness ==
    /\ engine = "py" /\ last = "insert" /\ pyres = 0
    /\ PyRootOverBranches
    /\ \A x \in PySubtree(pyheap, pytree.root) :
           pyheap[x].type = NODE_BRANCH =>
               \A s \in Range(pyheap[x].keys) :
                   node_get_key(pyheap[tree_find_leaf(pytree, pyheap, s)], 0) = s
    /\ Cardinality(PySubtree(pyheap, pytree.root)) >= 9

\* The leaves below node, left to right: child 0 first.  A pointer to a
\* freed node is listed as it is.
RECURSIVE CLeaves(_, _)
RECURSIVE CLeavesOfChildren(_, _, _)
CLeaves(h, node) ==
    IF node = NULL THEN <<>>
    ELSE IF node \notin DOMAIN h THEN <<node>>
    ELSE IF h[node].is_leaf THEN <<node>>
    ELSE CLeavesOfChildren(h, node, 1)

CLeavesOfChildren(h, node, i) ==
    IF i > Len(h[node].children) THEN <<>>
    ELSE CLeaves(h, h[node].children[i]) \o CLeavesOfChildren(h, node, i + 1)

RECURSIVE PyLeaves(_, _)
RECURSIVE PyLeavesOfChildren(_, _, _)
PyLeaves(h, node) ==
    IF node = NULL THEN <<>>
    ELSE IF h[node].type = NODE_LEAF THEN <<node>>
    ELSE PyLeavesOfChildren(h, node, 0)

PyLeavesOfChildren(h, node, i) ==
    IF i > Len(h[node].keys) THEN <<>>
    ELSE PyLeaves(h, node_get_child(h[node], i)) \o PyLeavesOfChildren(h, node, i + 1)

\* The nodes met by following next from node, for at most fuel steps; the
\* walk stops at a node that is not allocated.
RECURSIVE CChain(_, _, _)
CChain(h, node, fuel) ==
    IF node = NULL THEN <<>>
    ELSE IF node \notin DOMAIN h \/ fuel = 0 THEN <<node>>
    ELSE <<node>> \o CChain(h, h[node].next, fuel - 1)

RECURSIVE PyChain(_, _, _)
PyChain(h, node, fuel) ==
    IF node = NULL THEN <<>>
    ELSE IF node \notin DOMAIN h \/ fuel = 0 THEN <<node>>
    ELSE <<node>> \o PyChain(h, h[node].next, fuel - 1)

\* C25: in both engines, after any sequence of operations, following next
\* from the leftmost leaf visits exactly the leaves reachable from the root,
\* each once and in left-to-right order, visits no freed node and ends at a
\* NULL next; in the C engine L.next = N implies N.prev = L.
C25_LeafChain ==
    /\ engine = "c" =>
           LET chain == CChain(heap, tree.first_leaf, Cardinality(DOMAIN heap))
           IN  /\ Range(chain) \subseteq DOMAIN heap
               /\ chain = CLeaves(heap, tree.root)
               /\ \A x \in DOMAIN heap :
                      (heap[x].is_leaf /\ heap[x].next # NULL) =>
                          /\ heap[x].next \in DOMAIN heap
                          /\ heap[heap[x].next].prev = x
    /\ engine = "py" =>
           LET chain == PyChain(pyheap, pytree.leaves, Cardinality(DOMAIN pyheap))
           IN  /\ Range(chain) \subseteq DOMAIN pyheap
               /\ chain = PyLeaves(pyheap, pytree.root)

\* The depths, counted from node at depth, of the leaves below node.
RECURSIVE PyLeafDepths(_, _, _)
PyLeafDepths(h, node, depth) ==
    IF node = NULL THEN {}
    ELSE IF h[node].type = NODE_LEAF THEN {depth}
    ELSE UNION {PyLeafDepths(h, node_get_child(h[node], i), depth + 1) :
                   i \in 0..Len(h[node].keys)}

\* C26: in the Python engine, after any sequence of inserts and deletes, all
\* leaves are at the same depth below the root.
C26_Balanced ==
    engine = "py" => Cardinality(PyLeafDepths(pyheap, pytree.root, 0)) = 1

\* C26 witness: an insert has just split a leaf, the full branch above it and
\* the root: every leaf is two levels below the new root, whose two children
\* each hold half the separators of the old root.
C26_Witness ==
    /\ engine = "py" /\ last = "insert" /\ pyres = 0
    /\ PyLeafDepths(pyheap, pytree.root, 0) = {2}
    /\ \A i \in 0..1 :
           Len(pyheap[node_get_child(pyheap[pytree.root], i)].keys) = pytree.capacity \div 2

\* The members of a set of keys in ascending order.
RECURSIVE SortedSeq(_)
SortedSeq(S) == IF S = {} THEN <<>> ELSE <<Min(S)>> \o SortedSeq(S \ {Min(S)})

\* What C27 says of tree[key] = value when the leaf the key belongs to holds
\* capacity keys and not this one.
LeafSplitDivides(key, value) ==
    LET leaf    == tree_find_leaf(pytree, pyheap, key)
        old     == pyheap[leaf]
        mid     == old.capacity \div 2
        entries == SortedSeq(Range(old.keys) \cup {key})
        val(j)  == IF j = key THEN value ELSE node_get(pyheap, leaf, j)
        right   == pyheap'[leaf].next
        r       == node_insert_leaf(pyheap, leaf, key, value)
    IN  /\ Len(entries) = old.capacity + 1
        /\ pyheap'[leaf].keys = SubSeq(entries, 1, mid)
        /\ right \notin DOMAIN pyheap /\ right \in DOMAIN pyheap'
        /\ pyheap'[right].type = NODE_LEAF
        /\ pyheap'[right].keys = SubSeq(entries, mid + 1, old.capacity + 1)
        /\ \A x \in {leaf, right} :
               /\ Len(pyheap'[x].values) = Len(pyheap'[x].keys)
               /\ \A i \in 1..Len(pyheap'[x].keys) :
                      pyheap'[x].values[i] = val(pyheap'[x].keys[i])
        /\ r.result = 1
        /\ r.new_node = right
        /\ r.split_key = node_get_key(pyheap'[right], 0)
        /\ r.heap[leaf] = pyheap'[leaf] /\ r.heap[right] = pyheap'[right]

\* C27: in the Python engine, when a key is inserted into a leaf that holds
\* capacity keys, the capacity + 1 entries in key order are divided at
\* mid = capacity / 2: the leaf keeps entries [0, mid), the new right leaf
\* holds entries [mid, capacity + 1), each entry is in exactly one of the two
\* with its value, and the split key reported is the first key of the right
\* leaf, which stays stored there.
C27_LeafSplitDivides ==
    [][(engine = "py" /\ last' = "insert" /\ pyres' = 0) =>
          \A k \in CallerKeys, v \in Values :
              (/\ Len(pyheap[tree_find_leaf(pytree, pyheap, k)].keys) >= pytree.capacity
               /\ InsertPy(k, v)) => LeafSplitDivides(k, v)]_vars

\* C27 witness: the growth workload has just inserted the key that split the
\* full root leaf, into capacity / 2 entries on the left and the others in a
\* new right leaf.
C27_Witness ==
    /\ engine = "py" /\ workload = "grow" /\ ~mutated
    /\ last = "insert" /\ pyres = 0
    /\ BPlusTree_length(pytree) = pytree.capacity + 1
    /\ PyRootIsBranch
    /\ Len(pyheap[pytree.leaves].keys) = pytree.capacity \div 2
    /\ pyheap[pytree.leaves].next # NULL
    /\ Len(pyheap[pyheap[pytree.leaves].next].keys) =
           pytree.capacity + 1 - (pytree.capacity \div 2)

\* The node_insert_branch calls that tree_insert_recursive(h, node, key,
\* value) makes: for each, the heap it finds, the branch, and the key and
\* right child it is given.
RECURSIVE BranchCalls(_, _, _, _)
BranchCalls(h, node, key, value) ==
    IF h[node].type = NODE_LEAF THEN {}
    ELSE LET child == node_get_child(h[node], child_position(h[node], key))
             r     == tree_insert_recursive(h, child, key, value)
         IN  BranchCalls(h, child, key, value) \cup
             (IF r.result > 0
              THEN {[heap |-> r.heap, node |-> node, key |-> r.split_key,
                     right_child |-> r.new_node]}
              ELSE {})

\* What C28 says of the result of the call c of node_insert_branch on a
\* branch that holds capacity keys, for any key it does not hold and any
\* right child.
BranchSplitShape(c) ==
    LET old        == c.heap[c.node]
        mid        == old.capacity \div 2
        separators == SortedSeq(Range(old.keys) \cup {c.key})
        promoted   == separators[mid + 1]
        smaller    == Cardinality({s \in Range(old.keys) : s < c.key})
        r          == node_insert_branch(c.heap, c.node, c.key, c.right_child)
        left       == r.heap[c.node]
        right      == r.heap[r.new_node]
        kids       == left.children \o right.children
    IN  /\ Len(separators) = old.capacity + 1
        /\ r.result = 1
        /\ r.split_key = promoted
        /\ r.new_node \notin DOMAIN c.heap
        /\ right.type = NODE_BRANCH
        /\ left.keys = SubSeq(separators, 1, mid)
        /\ right.keys = SubSeq(separators, mid + 2, old.capacity + 1)
        /\ promoted \notin Range(left.keys) \cup Range(right.keys)
        /\ Len(left.children) = mid + 1
        /\ Len(right.children) = old.capacity - mid + 1
        /\ Range(kids) = Range(old.children) \cup {c.right_child}
        /\ Cardinality(Range(kids)) = old.capacity + 2
        /\ kids = InsertAt(old.children, smaller + 1, c.right_child)

\* What C28 says of a call c that tree_insert makes: the shape above, the
\* keys below the children ascending from child to child with the promoted
\* separator between the two branches, and the two branches as they are in
\* the heap the insert leaves.
BranchSplitDivides(c) ==
    LET mid      == c.heap[c.node].capacity \div 2
        r        == node_insert_branch(c.heap, c.node, c.key, c.right_child)
        kids     == r.heap[c.node].children \o r.heap[r.new_node].children
        below(i) == PySubtreeKeys(r.heap, kids[i])
    IN  /\ BranchSplitShape(c)
        /\ \A i \in 1..Len(kids), j \in 1..Len(kids) :
               i < j => \A a \in below(i), b \in below(j) : a < b
        /\ \A i \in 1..Len(kids) :
               \A a \in below(i) : (a < r.split_key) = (i <= mid + 1)
        /\ pyheap'[c.node] = r.heap[c.node]
        /\ pyheap'[r.new_node] = r.heap[r.new_node]

\* C28: in the Python engine, when node_insert_branch adds a separator and
\* its right child to a branch that holds capacity separators, the middle one
\* of the capacity + 1 separators in order (index capacity / 2) is promoted
\* and is in neither branch afterwards; the branch keeps the separators below
\* it with mid + 1 children, the new right branch holds the separators above
\* it with the other children, and each of the capacity + 2 children is in
\* exactly one of the two branches, in order.  The first conjunct applies
\* node_insert_branch to every full branch of the tree with every key the
\* branch does not hold, the second is about the calls tree_insert makes.
C28_BranchSplitDivides ==
    [][engine = "py" =>
          /\ \A x \in DOMAIN pyheap :
                 (/\ pyheap[x].type = NODE_BRANCH
                  /\ Len(pyheap[x].keys) >= pyheap[x].capacity) =>
                     \A k \in CallerKeys \ Range(pyheap[x].keys) :
                         BranchSplitShape([heap |-> pyheap, node |-> x, key |-> k,
                                           right_child |-> Cardinality(DOMAIN pyheap) + 2])
          /\ (last' = "insert" /\ pyres' = 0) =>
                 \A k \in CallerKeys, v \in Values :
                     InsertPy(k, v) =>
                         \A c \in BranchCalls(pyheap, pytree.root, k, v) :
                             Len(c.heap[c.node].keys) >= pytree.capacity =>
                                 BranchSplitDivides(c)]_vars

\* C28 witness: the growth workload has just inserted the key that split the
\* last leaf and the full root above it: the new root holds the promoted
\* separator alone, which neither of the two branches below it holds.
C28_Witness ==
    /\ engine = "py" /\ workload = "grow" /\ ~mutated
    /\ last = "insert" /\ pyres = 0
    /\ PyRootOverBranches
    /\ LET root  == pyheap[pytree.root]
           left  == pyheap[node_get_child(root, 0)]
           right == pyheap[node_get_child(root, 1)]
           mid   == pytree.capacity \div 2
           leaves == PyLeaves(pyheap, pytree.root)
       IN  /\ Len(root.keys) = 1
           /\ node_get_key(root, 0) \notin Range(left.keys) \cup Range(right.keys)
           /\ Len(left.keys) = mid /\ Len(left.children) = mid + 1
           /\ Len(right.keys) = pytree.capacity - mid
           /\ Len(right.children) = pytree.capacity - mid + 1
           /\ Len(pyheap[leaves[Len(leaves)]].keys) = pytree.capacity + 1 - mid

\* The number of levels from node down to the leftmost leaf below it.
RECURSIVE CHeight(_, _)
CHeight(h, node) ==
    IF node = NULL \/ node \notin DOMAIN h THEN 0
    ELSE IF h[node].is_leaf THEN 1
    ELSE 1 + CHeight(h, h[node].children[1])

RECURSIVE PyHeight(_, _)
PyHeight(h, node) ==
    IF node = NULL THEN 0
    ELSE IF h[node].type = NODE_LEAF THEN 1
    ELSE 1 + PyHeight(h, node_get_child(h[node], 0))

\* What C29 says of a new root: the old root was full and has split, its keys
\* are now in it, in a newly allocated sibling, or promoted; the new root is a
\* newly allocated branch with the promoted key alone, the old root as left
\* child and the sibling as right child.  before and after are the keys and
\* children of the nodes: <<keys, children>> by address.
RootGrew(old_root, new_root, capacity, allocated, before, after) ==
    LET keys     == after[new_root][1]
        children == after[new_root][2]
    IN  /\ new_root \notin allocated
        /\ Len(keys) = 1
        /\ Len(children) = 2
        /\ children[1] = old_root
        /\ children[2] \notin allocated \cup {new_root}
        /\ Len(before[old_root][1]) = capacity
        /\ Len(after[old_root][1]) < capacity
        /\ Range(before[old_root][1]) \subseteq
               Range(after[old_root][1]) \cup Range(after[children[2]][1]) \cup {keys[1]}
        /\ \A a \in Range(after[old_root][1]) : a < keys[1]
        /\ \A b \in Range(after[children[2]][1]) : b >= keys[1]

\* C29: in both engines an insert replaces the root of a tree that has one
\* only when the old root itself split: the new root is then a branch with
\* the promoted key as its one separator, the old root as its left and the
\* new sibling as its right child, and the tree is one level higher; any
\* other insert leaves the root the node it was.
C29_RootReplacedOnlyBySplit ==
    [][last' \in {"insert", "update"} =>
          /\ (engine = "c" /\ tree.root # NULL /\ tree'.root # tree.root) =>
                 /\ RootGrew(tree.root, tree'.root, tree.capacity, DOMAIN heap,
                             [x \in DOMAIN heap |-> <<heap[x].keys, heap[x].children>>],
                             [x \in DOMAIN heap' |-> <<heap'[x].keys, heap'[x].children>>])
                 /\ ~heap'[tree'.root].is_leaf
                 /\ heap'[heap'[tree'.root].children[2]].is_leaf = heap[tree.root].is_leaf
                 /\ CHeight(heap', tree'.root) = CHeight(heap, tree.root) + 1
          /\ (engine = "py" /\ pytree'.root # pytree.root) =>
                 /\ RootGrew(pytree.root, pytree'.root, pytree.capacity, DOMAIN pyheap,
                             [x \in DOMAIN pyheap |->
                                  <<pyheap[x].keys, pyheap[x].children>>],
                             [x \in DOMAIN pyheap' |->
                                  <<pyheap'[x].keys, pyheap'[x].children>>])
                 /\ pyheap'[pytree'.root].type = NODE_BRANCH
                 /\ pyheap'[node_get_child(pyheap'[pytree'.root], 1)].type =
                        pyheap[pytree.root].type
                 /\ PyHeight(pyheap', pytree'.root) = PyHeight(pyheap, pytree.root) + 1]_vars

\* C29 witness: the growth workload on the C engine has just inserted the key
\* that split the full root leaf: the root is a branch with one key over two
\* leaves, the first of them the leftmost leaf.
C29_Witness ==
    /\ engine = "c" /\ workload = "grow" /\ ~mutated
    /\ last = "insert" /\ cres = "BPTREE_OK"
    /\ bptree_size(tree) = tree.capacity + 1
    /\ CRootIsBranch
    /\ Len(heap[tree.root].keys) = 1
    /\ heap[tree.root].children[1] = tree.first_leaf
    /\ CHeight(heap, tree.root) = 2

\* The leaf reached from node by taking child 0 at every branch.
RECURSIVE CLeftmost(_, _)
CLeftmost(h, node) ==
    IF node = NULL \/ node \notin DOMAIN h THEN node
    ELSE IF h[node].is_leaf THEN node
    ELSE CLeftmost(h, h[node].children[1])

RECURSIVE PyLeftmost(_, _)
PyLeftmost(h, node) ==
    IF node = NULL THEN node
    ELSE IF h[node].type = NODE_LEAF THEN node
    ELSE PyLeftmost(h, node_get_child(h[node], 0))

\* C30: in both engines, after any sequence of inserts, splits and deletes,
\* the leftmost-leaf reference (first_leaf; tree->leaves) designates the leaf
\* reached from the root by taking child 0 at every branch, and in the C
\* engine it is NULL exactly when the tree has no root.
C30_FirstLeafIsLeftmost ==
    /\ engine = "c" =>
           /\ (tree.first_leaf = NULL) = (tree.root = NULL)
           /\ tree.first_leaf = CLeftmost(heap, tree.root)
           /\ tree.first_leaf # NULL =>
                  (tree.first_leaf \in DOMAIN heap /\ heap[tree.first_leaf].is_leaf)
    /\ engine = "py" =>
           /\ pytree.leaves = PyLeftmost(pyheap, pytree.root)
           /\ pytree.leaves \in DOMAIN pyheap
           /\ pyheap[pytree.leaves].type = NODE_LEAF

\* C30 witness: inserts have split leaves of the C tree until its root is a
\* branch with two or more keys; first_leaf is the root's child 0 and holds
\* the smallest stored key.
C30_Witness ==
    /\ engine = "c" /\ last = "insert" /\ cres = "BPTREE_OK"
    /\ CRootIsBranch
    /\ Len(heap[tree.root].keys) >= 2
    /\ tree.first_leaf = heap[tree.root].children[1]
    /\ \E k \in CallerKeys :
           /\ k \in Range(heap[tree.first_leaf].keys)
           /\ \A j \in CallerKeys : bptree_contains(tree, heap, j) => k <= j

(***************************************************************************)
(* Limits of the two engines                                               *)
(***************************************************************************)

\* The case in which the C engine has no room for a new key: the tree holds
\* no entry for key, the leaf the descent for key ends in holds capacity
\* keys, and that leaf has a parent that holds capacity separators.
ParentFull(t, h, key) ==
    /\ t.root # NULL
    /\ ~bptree_contains(t, h, key)
    /\ LET leaf == navigate(h, t.root, key)
       IN  /\ Len(h[leaf].keys) = t.capacity
           /\ h[leaf].parent # NULL
           /\ Len(h[h[leaf].parent].keys) = t.capacity

PyImage(t, h) ==
    [tree  |-> t,
     nodes |-> [x \in PySubtree(h, t.root) |-> h[x]],
     chain |-> PyChain(h, t.leaves, Cardinality(DOMAIN h)),
     scan  |-> PyFullScan(t, h).keys]

\* C32: in the Python engine, when tree_insert returns -1 because a key
\* comparison raised, the tree is as it was before the call: same root, size
\* and nodes, same leaf chain, same keys in a full scan, and every key that
\* was found before is found with the same value.
C32_ComparisonErrorLeavesTree ==
    [][(engine = "py" /\ last' \in {"insert", "update"} /\ pyres' = -1) =>
          /\ PyImage(pytree', pyheap') = PyImage(pytree, pyheap)
          /\ \A k \in CmpKeys \cap {j \in AllKeys : pyexpect[j] # NotFound} :
                 (\A j \in CmpKeys : {j, k} \notin raises) =>
                     tree_get(pytree', pyheap', k) = tree_get(pytree, pyheap, k)]_vars

(***************************************************************************)
(* References on key and value objects.  A count per object: the           *)
(* Py_INCREF calls less the Py_DECREF calls the engine makes on it.         *)
(***************************************************************************)

NoRefs == [keys |-> [k \in AllKeys |-> 0], values |-> [v \in Values |-> 0]]

AddRefs(r, s) ==
    [keys   |-> [k \in AllKeys |-> r.keys[k] + s.keys[k]],
     values |-> [v \in Values |-> r.values[v] + s.values[v]]]

\* Py_INCREF (n = 1) or Py_DECREF (n = -1) of an object: kind is "keys" for
\* a key object and "values" for a value object.
Ref(kind, object, n) == [NoRefs EXCEPT ![kind][object] = n]

\* Py_INCREF of every element of an array of keys or of values.
RECURSIVE Refs(_, _)
Refs(kind, s) ==
    IF s = <<>> THEN NoRefs ELSE AddRefs(Ref(kind, Head(s), 1), Refs(kind, Tail(s)))

\* The references node_insert_leaf takes and drops.
node_insert_leaf_refs(h, node, key, value) ==
    LET n   == h[node]
        pos == node_find_position(n, key)
    IN  IF pos < 0 THEN NoRefs
        ELSE IF pos < Len(n.keys) /\ fast_compare_eq(node_get_key(n, pos), key) < 0
        THEN NoRefs
        ELSE IF pos < Len(n.keys) /\ fast_compare_eq(node_get_key(n, pos), key) = 1
        THEN AddRefs(Ref("values", value, 1), Ref("values", node_get_value(n, pos), -1))
        ELSE IF Len(n.keys) >= n.capacity /\ PyAlloc(h) = NULL
        THEN NoRefs
        ELSE IF Len(n.keys) >= n.capacity
        THEN LET temp_keys   == InsertAt(n.keys, pos, key)
                 temp_values == InsertAt(n.values, pos, value)
                 mid         == n.capacity \div 2
                 total_items == n.capacity + 1
             IN  AddRefs(AddRefs(Refs("keys", SubSeq(temp_keys, 1, mid)),
                                 Refs("values", SubSeq(temp_values, 1, mid))),
                         AddRefs(AddRefs(Refs("keys", SubSeq(temp_keys, mid + 1, total_items)),
                                         Refs("values", SubSeq(temp_values, mid + 1,
                                                          total_items))),
                                 Ref("keys", temp_keys[mid + 1], 1)))
        ELSE AddRefs(Ref("keys", key, 1), Ref("values", value, 1))

\* The references node_insert_branch takes.
node_insert_branch_refs(h, node, key) ==
    LET n   == h[node]
        pos == node_find_position(n, key)
    IN  IF pos < 0 THEN NoRefs
        ELSE IF Len(n.keys) >= n.capacity /\ PyAlloc(h) = NULL
        THEN NoRefs
        ELSE IF Len(n.keys) >= n.capacity
        THEN LET temp_keys    == InsertAt(n.keys, pos, key)
                 mid          == n.capacity \div 2
                 new_num_keys == n.capacity - mid
             IN  AddRefs(Ref("keys", temp_keys[mid + 1], 1),
                         AddRefs(Refs("keys", SubSeq(temp_keys, 1, mid)),
                                 Refs("keys", SubSeq(temp_keys, mid + 2,
                                                mid + 1 + new_num_keys))))
        ELSE Ref("keys", key, 1)

\* The references one tree_insert_recursive call takes and drops, those of
\* the calls below it included.
RECURSIVE tree_insert_recursive_refs(_, _, _, _)
tree_insert_recursive_refs(h, node, key, value) ==
    IF h[node].type = NODE_LEAF
    THEN node_insert_leaf_refs(h, node, key, value)
    ELSE LET child_pos == child_position(h[node], key)
             child     == node_get_child(h[node], child_pos)
             r         == tree_insert_recursive(h, child, key, value)
         IN  IF child_pos < 0 THEN NoRefs
             ELSE IF r.result <= 0
             THEN tree_insert_recursive_refs(h, child, key, value)
             ELSE AddRefs(tree_insert_recursive_refs(h, child, key, value),
                          node_insert_branch_refs(r.heap, node, r.split_key))

\* The references tree_insert takes and drops: the reference taken on the
\* split key becomes the new root's, or is dropped when the new root cannot
\* be allocated.
tree_insert_refs(t, h, key, value) ==
    LET r == tree_insert_recursive(h, t.root, key, value)
    IN  IF r.result > 0 /\ PyAlloc(r.heap) = NULL
        THEN AddRefs(tree_insert_recursive_refs(h, t.root, key, value),
                     Ref("keys", r.split_key, -1))
        ELSE tree_insert_recursive_refs(h, t.root, key, value)

\* The references tree_delete drops: node_clear_slot on the slot found.
tree_delete_refs(t, h, key) ==
    LET leaf == tree_find_leaf(t, h, key)
    IN  IF leaf = NULL \/ tree_delete(t, h, key).result # 1 THEN NoRefs
        ELSE AddRefs(Ref("keys", key, -1), Ref("values", node_get(h, leaf, key), -1))

\* The number of live slots (index < num_keys) of allocated nodes that store
\* each key and each value object.
LiveSlots(h) ==
    [keys   |-> [k \in AllKeys |->
                    Cardinality({s \in UNION {{<<x, i>> : i \in 1..Len(h[x].keys)} :
                                                 x \in DOMAIN h} :
                                     h[s[1]].keys[s[2]] = k})],
     values |-> [v \in Values |->
                    Cardinality({s \in UNION {{<<x, i>> : i \in 1..Len(h[x].values)} :
                                                 x \in DOMAIN h} :
                                     h[s[1]].values[s[2]] = v})]]

\* C33: in the Python engine, in every state reached by inserts, updates
\* and deletes, a further tree_insert or tree_delete call changes the number
\* of references held on each key and value object by exactly the change in
\* the number of live slots that store it; the tree starts with no slot and
\* no reference, so the two numbers are equal after any sequence of calls.
C33_ReferencesFollowSlots ==
    engine = "py" =>
        /\ \A k \in CallerKeys, v \in Values :
               AddRefs(LiveSlots(pyheap), tree_insert_refs(pytree, pyheap, k, v))
                   = LiveSlots(tree_insert(pytree, pyheap, k, v).heap)
        /\ \A k \in CallerKeys :
               AddRefs(LiveSlots(pyheap), tree_delete_refs(pytree, pyheap, k))
                   = LiveSlots(tree_delete(pytree, pyheap, k).heap)

\* C34: in the Python engine, every tree BPlusTree_init accepts has a stored
\* capacity, in the tree and in its root node, equal to the capacity that was
\* requested and at least MIN_CAPACITY, and min_keys equal to half of it; a
\* requested capacity that does not fit in 16 bits is rejected.
C34_StoredCapacityIsRequested ==
    [][(engine = "py" /\ last' = "new") =>
          \A c \in PyNewCapacities :
              NewPy(c) =>
                  /\ c >= UINT16 => pyres' = -1
                  /\ pyres' = 0 =>
                         /\ pytree'.capacity = c
                         /\ pyheap'[pytree'.root].capacity = c
                         /\ pytree'.capacity >= MIN_CAPACITY
                         /\ pytree'.min_keys = pytree'.capacity \div 2]_vars

\* C35: in the C engine, for the capacity of every tree bptree_new has
\* returned, the size create_leaf_node and create_branch_node pass to malloc
\* has not wrapped around size_t: after the node header the block has room
\* for capacity keys and capacity values (leaf), or for capacity keys and
\* capacity + 1 children (branch), so that every slot below capacity lies in
\* the block.
C35_NodeSizeHoldsCapacity ==
    (engine = "c" /\ tree # NULL_TREE) =>
        /\ leaf_total_size(tree.capacity) >= SIZEOF_NODE
        /\ (leaf_total_size(tree.capacity) - SIZEOF_NODE) \div (2 * SIZEOF_INT)
               >= tree.capacity
        /\ branch_total_size(tree.capacity) >= SIZEOF_NODE + SIZEOF_POINTER
        /\ (branch_total_size(tree.capacity) - SIZEOF_NODE - SIZEOF_POINTER)
               \div (SIZEOF_INT + SIZEOF_POINTER) >= tree.capacity

\* C36: for the key array of every node the engines build, which is strictly
\* ascending, and every target, binary_search_keys (C engine) and
\* node_find_position (Python engine) return the smallest index i of 0..n
\* with i = n or keys[i] >= target, and binary_search_exact returns the index
\* of the key equal to the target when there is one and SIZE_MAX when there
\* is none; every search returns.
C36_SearchFindsLowerBound ==
    LET Targets == 0..(MaxDeepKey + 1)
        lower_bound(keys, target) ==
            Min({i \in 0..Len(keys) : i = Len(keys) \/ keys[i + 1] >= target})
    IN  /\ engine = "c" =>
               \A x \in DOMAIN heap, target \in Targets :
                   LET keys == heap[x].keys
                   IN  /\ StrictlyAscending(keys)
                       /\ binary_search_keys(keys, Len(keys), target)
                              = lower_bound(keys, target)
                       /\ \A i \in 0..(Len(keys) - 1) :
                              keys[i + 1] = target =>
                                  binary_search_exact(keys, Len(keys), target) = i
                       /\ target \notin Range(keys) =>
                              binary_search_exact(keys, Len(keys), target) = SIZE_MAX
        /\ engine = "py" =>
               \A x \in DOMAIN pyheap, target \in Targets :
                   /\ StrictlyAscending(pyheap[x].keys)
                   /\ node_find_position(pyheap[x], target)
                          = lower_bound(pyheap[x].keys, target)

\* C36 witness: the C engine has just inserted a key into a tree whose root
\* is a branch and one of whose leaves holds two keys that are not
\* neighbours, so that the searches of that insert met a separator array and
\* a leaf array, and a target between two keys of a leaf finds no match.
C36_Witness ==
    /\ engine = "c" /\ last = "insert" /\ cres = "BPTREE_OK"
    /\ CRootIsBranch
    /\ \E x \in DOMAIN heap :
           /\ heap[x].is_leaf
           /\ \E i \in 1..(Len(heap[x].keys) - 1) :
                  /\ heap[x].keys[i + 1] > heap[x].keys[i] + 1
                  /\ binary_search_exact(heap[x].keys, Len(heap[x].keys),
                                         heap[x].keys[i] + 1) = SIZE_MAX
                  /\ binary_search_keys(heap[x].keys, Len(heap[x].keys),
                                        heap[x].keys[i] + 1) = i

====
